---- MODULE Spec2Model ----
(***************************************************************************)
(* Model of the local Ludo rules engine (services/gameEngine.js).          *)
(*                                                                         *)
(* The engine is a set of pure functions over an immutable game-state      *)
(* record.  The record is the variable gameState; rollLocalDice and        *)
(* moveLocalToken are operators from a record to a record, and the two     *)
(* actions replace gameState by what they return, as the callers do.       *)
(*                                                                         *)
(* JavaScript arrays are functions over 0..n-1 where the code indexes      *)
(* them (players, tokens) and sequences where it only appends to them      *)
(* (moveHistory, finishOrder).  null is the value Null; where the code     *)
(* adds null to a number, ToNumber gives the 0 JavaScript coerces it to.   *)
(* A token id `${color}_${t}` is the pair <<color, t>>.  The message is    *)
(* the sequence of the fragments the code concatenates, without the        *)
(* interpolated player names and dice values.  The opaque game id is not   *)
(* modelled.                                                               *)
(***************************************************************************)
EXTENDS Integers, Sequences, FiniteSets, TLC

VARIABLES gameState, script, free, sixStreak, config, created, app, lookup, coords

vars == <<gameState, script, free, sixStreak, config, created, app, lookup, coords>>

----------------------------------------------------------------------------
(* Board configuration constants *)

BOARD_SIZE == 52
TOKENS_PER_PLAYER == 4
HOME_STRETCH_LENGTH == 5

PLAYER_CONFIGS ==
  [i \in 0..3 |->
     CASE i = 0 -> [color |-> "red",    name |-> "Red",    startPos |-> 0,  homeEntryPos |-> 50]
       [] i = 1 -> [color |-> "green",  name |-> "Green",  startPos |-> 13, homeEntryPos |-> 11]
       [] i = 2 -> [color |-> "yellow", name |-> "Yellow", startPos |-> 26, homeEntryPos |-> 24]
       [] i = 3 -> [color |-> "blue",   name |-> "Blue",   startPos |-> 39, homeEntryPos |-> 37]]

(* a plausible slip: only the star cells are safe, the start cells are not *)
SAFE_SQUARES_StarsOnly == {8, 21, 34, 47}

SAFE_SQUARES == {0, 8, 13, 21, 26, 34, 39, 47}

BASE == "base"
ACTIVE == "active"
HOME == "home"

TOKEN_STATE == {BASE, ACTIVE, HOME}

defaultColors == [i \in 0..3 |-> PLAYER_CONFIGS[i].color]

defaultNames == [i \in 0..3 |->
     CASE i = 0 -> "Player 1" [] i = 1 -> "Player 2"
       [] i = 2 -> "Player 3" [] i = 3 -> "Player 4"]

(* null, and the number JavaScript makes of it in an addition *)
Null == -1

ToNumber(v) == IF v = Null THEN 0 ELSE v

(* the faces of the die: Math.floor(Math.random() * 6) + 1 *)
rollDieValue == 1..6

----------------------------------------------------------------------------
(* createLocalGame({ playerCount, playerNames, playerColors }):            *)
(* playerNames and playerColors are sequences, entry i+1 for player i; a   *)
(* missing entry, and an entry that is the empty string (falsy for ||),    *)
(* takes the default.  Past the end of the arrays of defaults and of       *)
(* PLAYER_CONFIGS there is undefined.                                      *)

Undefined == "undefined"

ArgAt(args, i, default) ==
  IF i + 1 \in DOMAIN args /\ args[i + 1] # "" THEN args[i + 1] ELSE default

DefaultAt(defaults, i) == IF i \in DOMAIN defaults THEN defaults[i] ELSE Undefined

(* PLAYER_CONFIGS.find(c => c.color === color) || PLAYER_CONFIGS[i] is      *)
(* undefined: no configuration has the color and i is past the last one    *)
ConfigIsUndefined(color, i) ==
  /\ ~\E k \in DOMAIN PLAYER_CONFIGS : PLAYER_CONFIGS[k].color = color
  /\ i \notin DOMAIN PLAYER_CONFIGS

(* a plausible slip: the configuration is taken by player index *)
ConfigOf_ByIndex(color, i) == PLAYER_CONFIGS[i]

ConfigOf(color, i) ==
  IF \E k \in 0..3 : PLAYER_CONFIGS[k].color = color
    THEN PLAYER_CONFIGS[CHOOSE k \in 0..3 : PLAYER_CONFIGS[k].color = color]
    ELSE PLAYER_CONFIGS[i]

NewToken(color, t) ==
  [id |-> <<color, t>>, state |-> BASE, position |-> -1,
   homeStretchPos |-> -1, stepsFromStart |-> 0]

NewPlayer(i, playerNames, playerColors) ==
  LET color == ArgAt(playerColors, i, DefaultAt(defaultColors, i))
      playerConfig == ConfigOf(color, i)
  IN [index |-> i,
      name |-> ArgAt(playerNames, i, DefaultAt(defaultNames, i)),
      color |-> color,
      startPos |-> playerConfig.startPos,
      homeEntryPos |-> playerConfig.homeEntryPos,
      tokens |-> [t \in 0..(TOKENS_PER_PLAYER - 1) |-> NewToken(color, t)],
      hasFinished |-> FALSE,
      finishOrder |-> -1]

(* createLocalGame throws a TypeError: it reads startPos of an undefined    *)
(* configuration, or the name of players[0] when there is no player        *)
createLocalGameThrows(playerCount, playerNames, playerColors) ==
  \/ \E i \in 0..(playerCount - 1) :
       ConfigIsUndefined(ArgAt(playerColors, i, DefaultAt(defaultColors, i)), i)
  \/ playerCount <= 0

createLocalGame(playerCount, playerNames, playerColors) ==
  [players |-> [i \in 0..(playerCount - 1) |-> NewPlayer(i, playerNames, playerColors)],
   currentPlayerIndex |-> 0,
   diceValue |-> Null,
   diceRolled |-> FALSE,
   hasExtraTurn |-> FALSE,
   consecutiveSixes |-> 0,
   winner |-> Null,
   gameOver |-> FALSE,
   turnPhase |-> "roll",
   message |-> <<"'s turn - Roll the dice!">>,
   moveHistory |-> <<>>,
   finishOrder |-> <<>>]

----------------------------------------------------------------------------
(* getNextPlayerIndex: the next player in cyclic order that has not        *)
(* finished; the current player when all have.                             *)

RECURSIVE NextFrom(_, _, _)
NextFrom(gs, next, attempts) ==
  LET totalPlayers == Cardinality(DOMAIN gs.players)
  IN IF attempts < totalPlayers
       THEN IF ~gs.players[next].hasFinished
              THEN next
              ELSE NextFrom(gs, (next + 1) % totalPlayers, attempts + 1)
       ELSE gs.currentPlayerIndex

(* a plausible slip: the index after the last player does not wrap around *)
getNextPlayerIndex_NoWrap(gs) == gs.currentPlayerIndex + 1

getNextPlayerIndex(gs) ==
  NextFrom(gs, (gs.currentPlayerIndex + 1) % Cardinality(DOMAIN gs.players), 0)

----------------------------------------------------------------------------
(* getValidMovesLocal: the movable tokens of the current player, in token  *)
(* order, as records { tokenId, tokenIndex }.                              *)

(* a plausible slip: < for <=, so that the exact roll home is not a move *)
TokenIsValidMove_Strict(token, diceValue) ==
  IF token.state = HOME THEN FALSE
  ELSE IF token.state = BASE THEN diceValue = 6
  ELSE IF token.state = ACTIVE
    THEN token.stepsFromStart + diceValue < BOARD_SIZE + HOME_STRETCH_LENGTH + 1
    ELSE FALSE

TokenIsValidMove(token, diceValue) ==
  IF token.state = HOME THEN FALSE
  ELSE IF token.state = BASE THEN diceValue = 6
  ELSE IF token.state = ACTIVE
    THEN token.stepsFromStart + diceValue <= BOARD_SIZE + HOME_STRETCH_LENGTH + 1
    ELSE FALSE

RECURSIVE ValidMovesFrom(_, _, _)
ValidMovesFrom(tokens, diceValue, index) ==
  IF index \notin DOMAIN tokens THEN <<>>
  ELSE (IF TokenIsValidMove(tokens[index], diceValue)
          THEN <<[tokenId |-> tokens[index].id, tokenIndex |-> index]>>
          ELSE <<>>)
       \o ValidMovesFrom(tokens, diceValue, index + 1)

getValidMovesLocal(gs) ==
  LET player == gs.players[gs.currentPlayerIndex]
      diceValue == gs.diceValue
  IN IF diceValue = Null THEN <<>>
     ELSE ValidMovesFrom(player.tokens, diceValue, 0)

----------------------------------------------------------------------------
(* checkCapture: the first opposing token standing on the cell, scanning   *)
(* players and then tokens in index order; none on a safe square.          *)

NoCapture == [playerIndex |-> Null, tokenIndex |-> Null]

(* a plausible slip: the cell of the opposing token is not compared *)
Capturable_AnyCell(oppToken, position) ==
  /\ oppToken.state = ACTIVE
  /\ oppToken.homeStretchPos < 0

Capturable(oppToken, position) ==
  /\ oppToken.state = ACTIVE
  /\ oppToken.position = position
  /\ oppToken.homeStretchPos < 0

RECURSIVE CaptureScan(_, _, _, _, _)
CaptureScan(gs, playerIndex, position, i, t) ==
  IF i \notin DOMAIN gs.players THEN NoCapture
  ELSE IF i = playerIndex \/ t \notin DOMAIN gs.players[i].tokens
    THEN CaptureScan(gs, playerIndex, position, i + 1, 0)
  ELSE IF Capturable(gs.players[i].tokens[t], position)
    THEN [playerIndex |-> i, tokenIndex |-> t]
    ELSE CaptureScan(gs, playerIndex, position, i, t + 1)

(* a plausible slip: the safe squares are not looked at *)
checkCapture_NoSafeSquares(gs, playerIndex, position) ==
  CaptureScan(gs, playerIndex, position, 0, 0)

checkCapture(gs, playerIndex, position) ==
  IF position \in SAFE_SQUARES THEN NoCapture
  ELSE CaptureScan(gs, playerIndex, position, 0, 0)

----------------------------------------------------------------------------
(* moveLocalToken *)

RECURSIVE FindIndexFrom(_, _, _)
FindIndexFrom(tokens, tokenId, index) ==
  IF index \notin DOMAIN tokens THEN -1
  ELSE IF tokens[index].id = tokenId THEN index
  ELSE FindIndexFrom(tokens, tokenId, index + 1)

findIndex(tokens, tokenId) == FindIndexFrom(tokens, tokenId, 0)

(* the branch taken for the chosen token: a base token leaves base on a 6, *)
(* an active token advances, anything else is refused                      *)
(* a plausible slip: the 6 is not asked for *)
LeavesBase_NoSixCheck(token, diceValue) == token.state = BASE

LeavesBase(token, diceValue) == token.state = BASE /\ diceValue = 6

(* a plausible slip: a plain else, so that any token that is not leaving   *)
(* base advances                                                           *)
Advances_AnyState(token, diceValue) == TRUE

Advances(token, diceValue) == token.state = ACTIVE

(* a token leaving base: the moved token, the capture found at the start   *)
(* cell and the message                                                    *)
LeaveBase(gs, playerIndex, player, token) ==
  [token |-> [token EXCEPT !.state = ACTIVE,
                           !.position = player.startPos,
                           !.stepsFromStart = 0],
   capturedToken |-> checkCapture(gs, playerIndex, player.startPos),
   message |-> <<" moves a token to the starting position.">>]

(* a plausible slip: the home-stretch cell counted from 1 *)
Advance_OffByOne(gs, playerIndex, player, token, diceValue) ==
  LET newSteps == token.stepsFromStart + ToNumber(diceValue)
      homeEntrySteps == BOARD_SIZE
      totalPathToHome == BOARD_SIZE + HOME_STRETCH_LENGTH + 1
      newPosition == (player.startPos + newSteps) % BOARD_SIZE
  IN IF newSteps = totalPathToHome
       THEN [token |-> [token EXCEPT !.state = HOME,
                                     !.position = -1,
                                     !.homeStretchPos = -1,
                                     !.stepsFromStart = newSteps],
             capturedToken |-> NoCapture,
             message |-> <<"'s token reached HOME!">>]
     ELSE IF newSteps > homeEntrySteps
       THEN [token |-> [token EXCEPT !.homeStretchPos = newSteps - homeEntrySteps,
                                     !.position = -1,
                                     !.stepsFromStart = newSteps],
             capturedToken |-> NoCapture,
             message |-> <<" moves a token into the home stretch.">>]
     ELSE [token |-> [token EXCEPT !.position = newPosition,
                                   !.stepsFromStart = newSteps],
           capturedToken |-> checkCapture(gs, playerIndex, newPosition),
           message |-> <<" moves a token N spaces.">>]

(* an active token advancing by the dice value: home, home stretch or main *)
(* track, with the capture check on the main track only                    *)
Advance(gs, playerIndex, player, token, diceValue) ==
  LET newSteps == token.stepsFromStart + ToNumber(diceValue)
      homeEntrySteps == BOARD_SIZE
      totalPathToHome == BOARD_SIZE + HOME_STRETCH_LENGTH + 1
      newPosition == (player.startPos + newSteps) % BOARD_SIZE
  IN IF newSteps = totalPathToHome
       THEN [token |-> [token EXCEPT !.state = HOME,
                                     !.position = -1,
                                     !.homeStretchPos = -1,
                                     !.stepsFromStart = newSteps],
             capturedToken |-> NoCapture,
             message |-> <<"'s token reached HOME!">>]
     ELSE IF newSteps > homeEntrySteps
       THEN [token |-> [token EXCEPT !.homeStretchPos = newSteps - homeEntrySteps - 1,
                                     !.position = -1,
                                     !.stepsFromStart = newSteps],
             capturedToken |-> NoCapture,
             message |-> <<" moves a token into the home stretch.">>]
     ELSE [token |-> [token EXCEPT !.position = newPosition,
                                   !.stepsFromStart = newSteps],
           capturedToken |-> checkCapture(gs, playerIndex, newPosition),
           message |-> <<" moves a token N spaces.">>]

(* a plausible slip: the captured token keeps its step count *)
ApplyCapture_KeepsSteps(gs, playerIndex, tokenIndex, token, capturedToken) ==
  [i \in DOMAIN gs.players |->
     IF i = playerIndex
       THEN [gs.players[i] EXCEPT !.tokens[tokenIndex] = token]
     ELSE IF capturedToken # NoCapture /\ i = capturedToken.playerIndex
       THEN [gs.players[i] EXCEPT !.tokens[capturedToken.tokenIndex] =
               [@ EXCEPT !.state = BASE, !.position = -1,
                         !.homeStretchPos = -1]]
     ELSE gs.players[i]]

(* a plausible slip: every token of the captured player on the cell is    *)
(* sent back                                                               *)
ApplyCapture_All(gs, playerIndex, tokenIndex, token, capturedToken) ==
  [i \in DOMAIN gs.players |->
     IF i = playerIndex
       THEN [gs.players[i] EXCEPT !.tokens[tokenIndex] = token]
     ELSE IF capturedToken # NoCapture /\ i = capturedToken.playerIndex
       THEN [gs.players[i] EXCEPT !.tokens =
               [t \in DOMAIN gs.players[i].tokens |->
                  IF Capturable(gs.players[i].tokens[t],
                                gs.players[i].tokens[capturedToken.tokenIndex].position)
                    THEN [gs.players[i].tokens[t] EXCEPT
                            !.state = BASE, !.position = -1,
                            !.homeStretchPos = -1, !.stepsFromStart = 0]
                    ELSE gs.players[i].tokens[t]]]
     ELSE gs.players[i]]

(* the players after the move: the moved token replaced, the captured      *)
(* token sent back to base                                                 *)
ApplyCapture(gs, playerIndex, tokenIndex, token, capturedToken) ==
  [i \in DOMAIN gs.players |->
     IF i = playerIndex
       THEN [gs.players[i] EXCEPT !.tokens[tokenIndex] = token]
     ELSE IF capturedToken # NoCapture /\ i = capturedToken.playerIndex
       THEN [gs.players[i] EXCEPT !.tokens[capturedToken.tokenIndex] =
               [@ EXCEPT !.state = BASE, !.position = -1,
                         !.homeStretchPos = -1, !.stepsFromStart = 0]]
     ELSE gs.players[i]]

(* a plausible slip: one token home is taken for all *)
allHome_Some(player) == \E t \in DOMAIN player.tokens : player.tokens[t].state = HOME

allHome(player) == \A t \in DOMAIN player.tokens : player.tokens[t].state = HOME

(* a plausible slip: a capture does not keep the turn *)
KeepsTurn_SixOnly(gs, capturedToken) == gs.hasExtraTurn

(* a plausible slip: the six that produced the move does not keep the turn *)
KeepsTurn_CaptureOnly(gs, capturedToken) == capturedToken # NoCapture

(* the mover retains the turn: the roll was a six or the move captured *)
KeepsTurn(gs, capturedToken) == gs.hasExtraTurn \/ capturedToken # NoCapture

(* a plausible slip: the game goes on until one player is left *)
EndsGame_LastStanding(activePlayers, finishOrder) == activePlayers <= 1

(* the game ends when all but one player have finished, or when the first  *)
(* player finishes                                                         *)
EndsGame(activePlayers, finishOrder) == activePlayers <= 1 \/ Len(finishOrder) = 1

(* a plausible slip: the returned state keeps the extra turn of the move *)
ReturnedExtraTurn_Kept(hasExtraTurn) == hasExtraTurn

(* the hasExtraTurn field of the state an applied move returns *)
ReturnedExtraTurn(hasExtraTurn) == FALSE

(* a plausible slip: the dice value is not cleared after the move *)
FinishMove_KeepsDice(gs, playerIndex, tokenId, movedPlayers, capturedToken, moveMessage) ==
  LET diceValue == gs.diceValue
      updatedPlayer == movedPlayers[playerIndex]
      finishes == allHome(updatedPlayer) /\ ~updatedPlayer.hasFinished
      newPlayers ==
        IF finishes
          THEN [movedPlayers EXCEPT ![playerIndex] =
                  [updatedPlayer EXCEPT !.hasFinished = TRUE,
                                        !.finishOrder = Len(gs.finishOrder)]]
          ELSE movedPlayers
      finishOrder == IF finishes THEN Append(gs.finishOrder, playerIndex)
                                 ELSE gs.finishOrder
      activePlayers == Cardinality({i \in DOMAIN newPlayers : ~newPlayers[i].hasFinished})
      gameOver == finishes /\ EndsGame(activePlayers, finishOrder)
      winner == IF gameOver THEN playerIndex ELSE Null
      hasExtraTurn == KeepsTurn(gs, capturedToken)
      nextPlayerIndex ==
        IF ~gameOver /\ ~hasExtraTurn
          THEN getNextPlayerIndex([gs EXCEPT !.players = newPlayers])
          ELSE playerIndex
      message ==
        (IF gameOver THEN <<" WINS! Congratulations!">>
         ELSE moveMessage
              \o (IF capturedToken # NoCapture THEN <<" Captured a token!">> ELSE <<>>)
              \o (IF finishes THEN <<" has finished!">> ELSE <<>>))
        \o (IF ~gameOver /\ ~hasExtraTurn THEN <<"'s turn.">>
            ELSE IF ~gameOver /\ hasExtraTurn THEN <<" gets another turn!">>
            ELSE <<>>)
  IN [gs EXCEPT !.players = newPlayers,
                !.currentPlayerIndex = nextPlayerIndex,
                !.diceRolled = FALSE,
                !.turnPhase = "roll",
                !.hasExtraTurn = ReturnedExtraTurn(hasExtraTurn),
                !.consecutiveSixes = IF hasExtraTurn THEN gs.consecutiveSixes ELSE 0,
                !.gameOver = gameOver,
                !.winner = winner,
                !.finishOrder = finishOrder,
                !.message = message,
                !.moveHistory = Append(gs.moveHistory,
                    [playerIndex |-> playerIndex, tokenId |-> tokenId,
                     diceValue |-> diceValue])]

(* the move is over: finish and win detection, the next turn and the       *)
(* returned state                                                          *)
FinishMove(gs, playerIndex, tokenId, movedPlayers, capturedToken, moveMessage) ==
  LET diceValue == gs.diceValue
      updatedPlayer == movedPlayers[playerIndex]
      finishes == allHome(updatedPlayer) /\ ~updatedPlayer.hasFinished
      newPlayers ==
        IF finishes
          THEN [movedPlayers EXCEPT ![playerIndex] =
                  [updatedPlayer EXCEPT !.hasFinished = TRUE,
                                        !.finishOrder = Len(gs.finishOrder)]]
          ELSE movedPlayers
      finishOrder == IF finishes THEN Append(gs.finishOrder, playerIndex)
                                 ELSE gs.finishOrder
      activePlayers == Cardinality({i \in DOMAIN newPlayers : ~newPlayers[i].hasFinished})
      gameOver == finishes /\ EndsGame(activePlayers, finishOrder)
      winner == IF gameOver THEN playerIndex ELSE Null
      hasExtraTurn == KeepsTurn(gs, capturedToken)
      nextPlayerIndex ==
        IF ~gameOver /\ ~hasExtraTurn
          THEN getNextPlayerIndex([gs EXCEPT !.players = newPlayers])
          ELSE playerIndex
      message ==
        (IF gameOver THEN <<" WINS! Congratulations!">>
         ELSE moveMessage
              \o (IF capturedToken # NoCapture THEN <<" Captured a token!">> ELSE <<>>)
              \o (IF finishes THEN <<" has finished!">> ELSE <<>>))
        \o (IF ~gameOver /\ ~hasExtraTurn THEN <<"'s turn.">>
            ELSE IF ~gameOver /\ hasExtraTurn THEN <<" gets another turn!">>
            ELSE <<>>)
  IN [gs EXCEPT !.players = newPlayers,
                !.currentPlayerIndex = nextPlayerIndex,
                !.diceValue = Null,
                !.diceRolled = FALSE,
                !.turnPhase = "roll",
                !.hasExtraTurn = ReturnedExtraTurn(hasExtraTurn),
                !.consecutiveSixes = IF hasExtraTurn THEN gs.consecutiveSixes ELSE 0,
                !.gameOver = gameOver,
                !.winner = winner,
                !.finishOrder = finishOrder,
                !.message = message,
                !.moveHistory = Append(gs.moveHistory,
                    [playerIndex |-> playerIndex, tokenId |-> tokenId,
                     diceValue |-> diceValue])]

(* a plausible slip: calls are served after the game is over *)
GameIsOver_Never(gs) == FALSE

(* the first check of rollLocalDice and of moveLocalToken *)
GameIsOver(gs) == gs.gameOver

moveLocalToken(gs, tokenId) ==
  IF GameIsOver(gs) THEN [gs EXCEPT !.message = <<"Game is over!">>]
  ELSE
    LET playerIndex == gs.currentPlayerIndex
        player == gs.players[playerIndex]
        diceValue == gs.diceValue
        tokenIndex == findIndex(player.tokens, tokenId)
    IN IF tokenIndex = -1 THEN [gs EXCEPT !.message = <<"Invalid token!">>]
       ELSE
         LET token == player.tokens[tokenIndex]
         IN IF LeavesBase(token, diceValue)
              THEN LET m == LeaveBase(gs, playerIndex, player, token)
                   IN FinishMove(gs, playerIndex, tokenId,
                        ApplyCapture(gs, playerIndex, tokenIndex, m.token, m.capturedToken),
                        m.capturedToken, m.message)
            ELSE IF Advances(token, diceValue)
              THEN LET m == Advance(gs, playerIndex, player, token, diceValue)
                   IN FinishMove(gs, playerIndex, tokenId,
                        ApplyCapture(gs, playerIndex, tokenIndex, m.token, m.capturedToken),
                        m.capturedToken, m.message)
            ELSE [gs EXCEPT !.message = <<"Cannot move this token!">>]

----------------------------------------------------------------------------
(* rollLocalDice, with the value the die shows as a parameter *)

(* a plausible slip: the phase is never looked at *)
MustMoveFirst_Never(gs) == FALSE

MustMoveFirst(gs) == gs.turnPhase # "roll"

(* a plausible slip: > for >=, so that the turn is lost on the fourth six *)
LosesTurn_AfterFour(consecutiveSixes) == consecutiveSixes > 3

(* three consecutive sixes lose the turn *)
LosesTurn(consecutiveSixes) == consecutiveSixes >= 3

(* a plausible slip: a six without a valid move passes the turn *)
RollAgain_Never(newState) == FALSE

(* without a valid move, the roller of a six rolls again *)
RollAgain(newState) == newState.hasExtraTurn

(* a plausible slip: a roll without a valid move waits for a move *)
NoValidMoves_Never(validMoves) == FALSE

NoValidMoves(validMoves) == Len(validMoves) = 0

(* a plausible slip: a single valid move is left to the caller *)
AutoMoves_Never(validMoves) == FALSE

AutoMoves(validMoves) == Len(validMoves) = 1

(* a plausible slip: a roll other than six leaves the count of sixes *)
SixesAfterNonSix_Kept(consecutiveSixes) == consecutiveSixes

(* a roll other than six resets the count of sixes *)
SixesAfterNonSix(consecutiveSixes) == 0

(* newState as it is after the count of sixes is kept, when the turn is    *)
(* not lost on a third six                                                 *)
RolledState(gs, diceValue) ==
  LET rolled == [gs EXCEPT !.diceValue = diceValue, !.diceRolled = TRUE]
  IN IF diceValue = 6
       THEN [rolled EXCEPT !.consecutiveSixes = gs.consecutiveSixes + 1,
                           !.hasExtraTurn = TRUE]
       ELSE [rolled EXCEPT !.consecutiveSixes = SixesAfterNonSix(gs.consecutiveSixes),
                           !.hasExtraTurn = FALSE]

rollLocalDice(gs, diceValue) ==
  IF GameIsOver(gs) THEN [gs EXCEPT !.message = <<"Game is over!">>]
  ELSE IF MustMoveFirst(gs)
    THEN [gs EXCEPT !.message = <<"You must move a token first!">>]
  ELSE
    LET rolled == [gs EXCEPT !.diceValue = diceValue, !.diceRolled = TRUE]
        sixes == gs.consecutiveSixes + 1
    IN IF diceValue = 6 /\ LosesTurn(sixes)
         THEN [rolled EXCEPT
                 !.turnPhase = "roll",
                 !.diceRolled = FALSE,
                 !.diceValue = Null,
                 !.consecutiveSixes = 0,
                 !.currentPlayerIndex =
                    getNextPlayerIndex([rolled EXCEPT !.consecutiveSixes = sixes]),
                 !.hasExtraTurn = FALSE,
                 !.message = <<" rolled three 6s! Turn lost.", "'s turn.">>]
       ELSE
         LET newState == RolledState(gs, diceValue)
             validMoves == getValidMovesLocal(newState)
         IN IF NoValidMoves(validMoves)
              THEN IF RollAgain(newState)
                     THEN [newState EXCEPT
                             !.turnPhase = "roll",
                             !.diceRolled = FALSE,
                             !.diceValue = Null,
                             !.hasExtraTurn = FALSE,
                             !.message = <<" rolled N but has no valid moves. Roll again!">>]
                     ELSE [newState EXCEPT
                             !.turnPhase = "roll",
                             !.diceRolled = FALSE,
                             !.diceValue = Null,
                             !.currentPlayerIndex = getNextPlayerIndex(newState),
                             !.message = <<" rolled N but has no valid moves.", "'s turn.">>]
            ELSE IF AutoMoves(validMoves)
              THEN moveLocalToken(newState, validMoves[1].tokenId)
            ELSE [newState EXCEPT
                    !.turnPhase = "move",
                    !.message = <<" rolled N. Choose a token to move.">>]

----------------------------------------------------------------------------
(* The callers.  A game is created and then driven by calls of             *)
(* rollLocalDice and moveLocalToken, each on the state the previous call   *)
(* returned.  A scenario opens the game with a forced sequence of calls    *)
(* (a seeded die and chosen tokens) that brings it to a position of        *)
(* interest; once the sequence is used up every die value and every token  *)
(* id may come, for at most MaxMoves further applied moves.                *)

MaxMoves == 2

Roll(d) == [op |-> "roll", arg |-> d]

Move(color, t) == [op |-> "move", arg |-> <<color, t>>]

RECURSIVE Repeat(_, _)
Repeat(calls, n) == IF n = 0 THEN <<>> ELSE calls \o Repeat(calls, n - 1)

(* red brings one token to step 56 while green rolls ones *)
HomeRunOpening ==
  <<Roll(6), Move("red", 0), Roll(6), Move("red", 0)>>
  \o Repeat(<<Roll(5), Roll(1)>>, 10)

(* red at step 11, green at step 4 (cell 17), red to roll *)
CaptureOpening ==
  <<Roll(6), Move("red", 0), Roll(5),
    Roll(6), Move("green", 0), Roll(4),
    Roll(6), Move("red", 0)>>

(* one red token from base to home in four turns of red (6, 6, 5 three      *)
(* times, then 6, 6, 1), green rolling a one after each; on a 6 red has    *)
(* several movable tokens and chooses token t                              *)
BringHome(t) ==
  Repeat(<<Roll(6), Move("red", t), Roll(6), Move("red", t), Roll(5), Roll(1)>>, 3)
  \o <<Roll(6), Move("red", t), Roll(6), Move("red", t), Roll(1), Roll(1)>>

(* three red tokens home and the fourth, the only movable one and so moved *)
(* by the rolls themselves, at step 51 with red to roll                    *)
LastTokenOpening ==
  BringHome(0) \o BringHome(1) \o BringHome(2)
  \o Repeat(<<Roll(6), Roll(6), Roll(5), Roll(1)>>, 3) \o <<Roll(6)>>

(* the same among three players, green and yellow rolling a one after each *)
(* turn of red, up to the fourth red token at step 57, one step from home, *)
(* with red to roll after two sixes in a row                               *)
OthersPass == <<Roll(1), Roll(1)>>

BringHomeOfThree(t) ==
  Repeat(<<Roll(6), Move("red", t), Roll(6), Move("red", t), Roll(5)>> \o OthersPass, 3)
  \o <<Roll(6), Move("red", t), Roll(6), Move("red", t), Roll(1)>> \o OthersPass

LastStepOpening ==
  BringHomeOfThree(0) \o BringHomeOfThree(1) \o BringHomeOfThree(2)
  \o Repeat(<<Roll(6), Roll(6), Roll(5)>> \o OthersPass, 3) \o <<Roll(6), Roll(6)>>

(* three players.  Two yellow tokens come to stand on cell 28; red passes  *)
(* the safe cell 26 while a yellow token is on it, lands on 28, capturing  *)
(* the first yellow token and sharing the cell with the second, then       *)
(* brings out a second token and loses the turn on a third six; green is   *)
(* at step 12 (cell 25), three cells before 28, and is to roll             *)
StackOpening ==
  <<Roll(6), Move("red", 0), Roll(6), Move("red", 0), Roll(5),
    Roll(6), Move("green", 0), Roll(6), Move("green", 0), Roll(5),
    Roll(6), Move("yellow", 0), Roll(6), Move("yellow", 1), Roll(2), Move("yellow", 0),
    Roll(6), Move("red", 0), Roll(6), Move("red", 0), Roll(3),
    Roll(1),
    Roll(2), Move("yellow", 1),
    Roll(2), Roll(6), Move("red", 1), Roll(6), Move("red", 1), Roll(6)>>

(* red_0 comes to stand on cell 13, the start cell of green, red brings    *)
(* out a second token and loses the turn on a third six; green, with all   *)
(* tokens in base, is to roll                                              *)
StartCellOpening ==
  <<Roll(6), Move("red", 0), Roll(6), Move("red", 0), Roll(1), Roll(1),
    Roll(6), Move("red", 0), Roll(6), Move("red", 1), Roll(6)>>

Scenarios ==
  {[playerCount |-> 2, script |-> <<>>],
   [playerCount |-> 2, script |-> LastTokenOpening],
   [playerCount |-> 3, script |-> <<>>],
   [playerCount |-> 4, script |-> <<>>],
   [playerCount |-> 2, script |-> HomeRunOpening],
   [playerCount |-> 2, script |-> CaptureOpening],
   [playerCount |-> 3, script |-> StackOpening],
   [playerCount |-> 3, script |-> LastStepOpening],
   [playerCount |-> 2, script |-> StartCellOpening]}

(* the ids a caller may pass: every token of the game and one that is no   *)
(* token's id                                                              *)
UnknownTokenId == <<"red", TOKENS_PER_PLAYER>>

TokenIds(gs) ==
  {gs.players[i].tokens[t].id :
     i \in DOMAIN gs.players, t \in 0..(TOKENS_PER_PLAYER - 1)}
  \cup {UnknownTokenId}

(* the state of the App component around the game: the screen, the valid   *)
(* moves it keeps, the rolling flag, the win modal and the timeouts that   *)
(* are pending; and, for the properties, the number of games started, the  *)
(* game the kept state belongs to and the number of engine calls made      *)
AppOn(screen) ==
  [screen |-> screen, validMoves |-> <<>>, rolling |-> FALSE,
   showWinModal |-> FALSE, timers |-> <<>>, game |-> 0, heldGame |-> 0, calls |-> 0]

(* no coordinate has been asked for *)
NoLookup == [table |-> "none", color |-> "", index |-> -1]

NoCoords == [row |-> -1, col |-> -1]

Init ==
  \E sc \in Scenarios :
    /\ app = AppOn("playing")
    /\ lookup = NoLookup
    /\ coords = NoCoords
    /\ config = [playerCount |-> sc.playerCount, playerNames |-> <<>>, playerColors |-> <<>>]
    /\ created = "returned"
    /\ gameState = createLocalGame(config.playerCount, config.playerNames, config.playerColors)
    /\ script = sc.script
    /\ free = 0
    /\ sixStreak = 0

(* what the callers have seen: the number of sixes the current player has  *)
(* rolled in a row, with no other roll of that player and no change of the *)
(* current player in between; a die is drawn by a roll in the roll phase   *)
(* of a game that is not over                                              *)
StreakAfter(call, next) ==
  IF next.currentPlayerIndex # gameState.currentPlayerIndex THEN 0
  ELSE IF call.op = "roll" /\ gameState.turnPhase = "roll" /\ ~gameState.gameOver
    THEN IF call.arg = 6 THEN sixStreak + 1 ELSE 0
  ELSE sixStreak

(* one call returning the state next *)
Call(call, next) ==
  /\ script # <<>> => (script[1].op = call.op /\ script[1].arg = call.arg)
  /\ gameState' = next
  /\ script' = IF script # <<>> THEN Tail(script) ELSE script
  /\ free' = IF script # <<>> THEN 0
             ELSE free + Len(next.moveHistory) - Len(gameState.moveHistory)
  /\ free' <= MaxMoves
  /\ sixStreak' = StreakAfter(call, next)
  /\ UNCHANGED <<config, created, app, lookup, coords>>

RollDice ==
  \E d \in rollDieValue : Call(Roll(d), rollLocalDice(gameState, d))

ApplyMove ==
  \E tokenId \in TokenIds(gameState) :
    Call([op |-> "move", arg |-> tokenId], moveLocalToken(gameState, tokenId))

Next == RollDice \/ ApplyMove

Spec == Init /\ [][Next]_vars

----------------------------------------------------------------------------
(* Vocabulary of the properties *)

PlayerIndices == DOMAIN gameState.players

TokenIndices == 0..(TOKENS_PER_PLAYER - 1)

TokenAt(gs, i, t) == gs.players[i].tokens[t]

CurrentPlayer(gs) == gs.players[gs.currentPlayerIndex]

(* the state without its message *)
Structure(gs) == [f \in (DOMAIN gs) \ {"message"} |-> gs[f]]

SameButMessage(gs, returned) == Structure(returned) = Structure(gs)

(* the state rollLocalDice hands to getValidMovesLocal for a die value *)
Rolled(gs, d) == [gs EXCEPT !.diceValue = d]

HasMessage(fragment) ==
  \E k \in 1..Len(gameState.message) : gameState.message[k] = fragment

LastMove == gameState.moveHistory[Len(gameState.moveHistory)]

----------------------------------------------------------------------------
(* C1: moveLocalToken changes nothing but the message when the game is     *)
(* over, when tokenId is not the id of a token of the current player, when *)
(* the token is in base and the dice value is not 6, or when the token is  *)
(* home.                                                                   *)

C1_Refused(gs, tokenId) ==
  \/ gs.gameOver
  \/ \A t \in TokenIndices : CurrentPlayer(gs).tokens[t].id # tokenId
  \/ \E t \in TokenIndices :
       /\ CurrentPlayer(gs).tokens[t].id = tokenId
       /\ \/ CurrentPlayer(gs).tokens[t].state = BASE /\ gs.diceValue # 6
          \/ CurrentPlayer(gs).tokens[t].state = HOME

C1_RefusedMoveIsNoOp ==
  \A tokenId \in TokenIds(gameState) :
    C1_Refused(gameState, tokenId)
      => SameButMessage(gameState, moveLocalToken(gameState, tokenId))

(* a refused move has been returned while the current player has a token   *)
(* home and a token in base                                                *)
C1_Witness ==
  /\ gameState.message = <<"Cannot move this token!">>
  /\ ~gameState.gameOver
  /\ \E t \in TokenIndices : CurrentPlayer(gameState).tokens[t].state = HOME
  /\ \E t \in TokenIndices : CurrentPlayer(gameState).tokens[t].state = BASE

----------------------------------------------------------------------------
(* C2: in the move phase, moveLocalToken on an active token of the current *)
(* player with stepsFromStart + diceValue > 58 changes nothing but the     *)
(* message.                                                                *)

C2_OvershootIsRefused ==
  (gameState.turnPhase = "move" /\ ~gameState.gameOver) =>
    \A t \in TokenIndices :
      LET token == CurrentPlayer(gameState).tokens[t]
      IN (token.state = ACTIVE /\ token.stepsFromStart + gameState.diceValue > 58)
           => SameButMessage(gameState, moveLocalToken(gameState, token.id))

----------------------------------------------------------------------------
(* C3: in the roll phase (no dice value present) moveLocalToken changes    *)
(* nothing but the message, whatever the token id.                         *)

C3_MoveInRollPhaseIsRefused ==
  (gameState.turnPhase = "roll" /\ gameState.diceValue = Null) =>
    \A tokenId \in TokenIds(gameState) :
      SameButMessage(gameState, moveLocalToken(gameState, tokenId))

----------------------------------------------------------------------------
(* C4: rollLocalDice changes nothing but the message when the game is over *)
(* or the turn phase is not roll, whatever the die would show.             *)

C4_RefusedRollIsNoOp ==
  (gameState.gameOver \/ gameState.turnPhase # "roll") =>
    \A d \in rollDieValue : SameButMessage(gameState, rollLocalDice(gameState, d))

(* a roll has been refused with a move pending *)
C4_Witness ==
  /\ gameState.message = <<"You must move a token first!">>
  /\ gameState.turnPhase = "move"
  /\ gameState.diceValue \in rollDieValue

----------------------------------------------------------------------------
(* C5: every active token has 0 <= stepsFromStart <= 57, every home token  *)
(* has stepsFromStart = 58, every base token has stepsFromStart = 0, and   *)
(* no token has stepsFromStart > 58.                                       *)

C5_StepsInRange ==
  \A i \in PlayerIndices : \A t \in TokenIndices :
    LET token == TokenAt(gameState, i, t)
    IN /\ token.state = ACTIVE => token.stepsFromStart \in 0..57
       /\ token.state = HOME => token.stepsFromStart = 58
       /\ token.state = BASE => token.stepsFromStart = 0
       /\ token.stepsFromStart <= 58

----------------------------------------------------------------------------
(* C6: every token is in exactly one of four places: base or home (no      *)
(* position, no home-stretch position), active on the main track           *)
(* (position in 0..51, no home-stretch position), or active in the home    *)
(* stretch (no position, home-stretch position in 0..4).                   *)

C6_OneLocation ==
  \A i \in PlayerIndices : \A t \in TokenIndices :
    LET token == TokenAt(gameState, i, t)
    IN \/ token.state = BASE /\ token.position = -1 /\ token.homeStretchPos = -1
       \/ token.state = HOME /\ token.position = -1 /\ token.homeStretchPos = -1
       \/ token.state = ACTIVE /\ token.position \in 0..51 /\ token.homeStretchPos = -1
       \/ token.state = ACTIVE /\ token.position = -1 /\ token.homeStretchPos \in 0..4

----------------------------------------------------------------------------
(* The board animator (components/GameBoard.js, computeIntermediateSteps): *)
(* the cell it shows for step s of a token of the player starting at       *)
(* startPos, as <<"track", position>> or <<"homeStretch", pos>>; no cell   *)
(* beyond the home stretch.                                                *)

MAIN_TRACK_SIZE == 52

NoCell == <<"none", -1>>

AnimationStep(startPos, s) ==
  IF s > MAIN_TRACK_SIZE
    THEN LET hsPos == s - MAIN_TRACK_SIZE - 1
         IN IF hsPos >= 0 /\ hsPos < 5 THEN <<"homeStretch", hsPos>> ELSE NoCell
    ELSE <<"track", (startPos + s) % MAIN_TRACK_SIZE>>

(* the cell the engine reports for an active token *)
ReportedCell(token) ==
  IF token.homeStretchPos >= 0 THEN <<"homeStretch", token.homeStretchPos>>
  ELSE <<"track", token.position>>

----------------------------------------------------------------------------
(* C7: position and homeStretchPos are derived from stepsFromStart: an     *)
(* active token with stepsFromStart <= 52 has position = (startPos +       *)
(* stepsFromStart) mod 52 and no home-stretch position; one with           *)
(* stepsFromStart in 53..57 has homeStretchPos = stepsFromStart - 53 and   *)
(* no position; and the last cell the animator replays up to that step     *)
(* count is the cell the engine reports.                                   *)

C7_DerivedViews ==
  \A i \in PlayerIndices : \A t \in TokenIndices :
    LET token == TokenAt(gameState, i, t)
        startPos == gameState.players[i].startPos
    IN token.state = ACTIVE =>
         /\ token.stepsFromStart <= 52 =>
              /\ token.position = (startPos + token.stepsFromStart) % 52
              /\ token.homeStretchPos = -1
         /\ token.stepsFromStart \in 53..57 =>
              /\ token.homeStretchPos = token.stepsFromStart - 53
              /\ token.position = -1
         /\ token.stepsFromStart \in 1..57 =>
              AnimationStep(startPos, token.stepsFromStart) = ReportedCell(token)

(* a token stands in the home stretch and a token of a player not         *)
(* starting at cell 0 has just advanced on the main track                  *)
C7_Witness ==
  /\ \E i \in PlayerIndices : \E t \in TokenIndices :
       /\ TokenAt(gameState, i, t).state = ACTIVE
       /\ TokenAt(gameState, i, t).stepsFromStart \in 53..57
       /\ TokenAt(gameState, i, t).homeStretchPos \in 0..4
  /\ \E i \in PlayerIndices : \E t \in TokenIndices :
       /\ gameState.players[i].startPos > 0
       /\ TokenAt(gameState, i, t).state = ACTIVE
       /\ TokenAt(gameState, i, t).stepsFromStart > 0
       /\ TokenAt(gameState, i, t).position \in 0..51
       /\ LastMove.tokenId = TokenAt(gameState, i, t).id

----------------------------------------------------------------------------
(* C8, as claimed: no call ever lowers the stepsFromStart of a token.      *)

C8_StepsNeverDecrease ==
  [][\A i \in PlayerIndices : \A t \in TokenIndices :
       TokenAt(gameState', i, t).stepsFromStart
         >= TokenAt(gameState, i, t).stepsFromStart]_vars

(* C8, amended: a call lowers the stepsFromStart of a token only by        *)
(* capturing it: the token was active on the main track, is not the        *)
(* mover's, is reset to base with stepsFromStart = 0, and the move         *)
(* recorded last has put the mover's token on the cell it stood on.        *)

C8_Captured(gs, returned, i, t) ==
  /\ TokenAt(gs, i, t).state = ACTIVE
  /\ TokenAt(gs, i, t).position \in 0..51
  /\ i # gs.currentPlayerIndex
  /\ TokenAt(returned, i, t) =
       [TokenAt(gs, i, t) EXCEPT !.state = BASE, !.position = -1,
                                 !.homeStretchPos = -1, !.stepsFromStart = 0]
  /\ Len(returned.moveHistory) = Len(gs.moveHistory) + 1
  /\ LET move == returned.moveHistory[Len(returned.moveHistory)]
     IN /\ move.playerIndex = gs.currentPlayerIndex
        /\ \E m \in TokenIndices :
             /\ TokenAt(returned, move.playerIndex, m).id = move.tokenId
             /\ TokenAt(returned, move.playerIndex, m).state = ACTIVE
             /\ TokenAt(returned, move.playerIndex, m).position = TokenAt(gs, i, t).position

C8_StepsDecreaseOnlyByCapture ==
  [][\A i \in PlayerIndices : \A t \in TokenIndices :
       \/ TokenAt(gameState', i, t).stepsFromStart
            >= TokenAt(gameState, i, t).stepsFromStart
       \/ C8_Captured(gameState, gameState', i, t)]_vars

(* a move has captured a token that had advanced: the mover stands on a    *)
(* cell other than the start cell of the player whose token is back in     *)
(* base                                                                    *)
C8_Witness ==
  /\ HasMessage(" Captured a token!")
  /\ \E i \in PlayerIndices : \E t \in TokenIndices : \E m \in TokenIndices :
       /\ i # LastMove.playerIndex
       /\ TokenAt(gameState, i, t).state = BASE
       /\ TokenAt(gameState, LastMove.playerIndex, m).id = LastMove.tokenId
       /\ TokenAt(gameState, LastMove.playerIndex, m).position = 17

----------------------------------------------------------------------------
(* C9: getValidMovesLocal lists, in token order and for the current player *)
(* only, exactly the tokens that are in base with a dice value of 6 or     *)
(* active with stepsFromStart + diceValue <= 58; never a home token, never *)
(* a token of another player, and nothing without a dice value.  Checked   *)
(* on every state and on every state a roll hands to it.                   *)

C9_Movable(token, diceValue) ==
  \/ token.state = BASE /\ diceValue = 6
  \/ token.state = ACTIVE /\ token.stepsFromStart + diceValue <= 58

C9_ListIsExact(gs) ==
  LET validMoves == getValidMovesLocal(gs)
      tokens == CurrentPlayer(gs).tokens
  IN /\ gs.diceValue = Null => validMoves = <<>>
     /\ \A k \in 1..Len(validMoves) :
          /\ validMoves[k].tokenIndex \in TokenIndices
          /\ validMoves[k].tokenId = tokens[validMoves[k].tokenIndex].id
          /\ C9_Movable(tokens[validMoves[k].tokenIndex], gs.diceValue)
          /\ tokens[validMoves[k].tokenIndex].state # HOME
          /\ \A i \in DOMAIN gs.players : \A t \in TokenIndices :
               i # gs.currentPlayerIndex => TokenAt(gs, i, t).id # validMoves[k].tokenId
     /\ \A k \in 1..Len(validMoves) : \A l \in 1..Len(validMoves) :
          k < l => validMoves[k].tokenIndex < validMoves[l].tokenIndex
     /\ gs.diceValue # Null =>
          \A t \in TokenIndices :
            C9_Movable(tokens[t], gs.diceValue)
              => \E k \in 1..Len(validMoves) : validMoves[k].tokenIndex = t

C9_ValidMovesExact ==
  /\ C9_ListIsExact(gameState)
  /\ (gameState.turnPhase = "roll" /\ ~gameState.gameOver) =>
       \A d \in rollDieValue : C9_ListIsExact(Rolled(gameState, d))

(* a move is pending with base tokens listed and an active token that      *)
(* would overshoot home left out                                           *)
C9_Witness ==
  /\ gameState.turnPhase = "move"
  /\ Len(getValidMovesLocal(gameState)) >= 2
  /\ \E t \in TokenIndices :
       /\ CurrentPlayer(gameState).tokens[t].state = ACTIVE
       /\ \A k \in 1..Len(getValidMovesLocal(gameState)) :
            getValidMovesLocal(gameState)[k].tokenIndex # t

----------------------------------------------------------------------------
(* C10: a token goes from base to active only in a move recorded with      *)
(* diceValue = 6, and then has stepsFromStart = 0 and stands on its        *)
(* player's start cell; for a roll other than 6 getValidMovesLocal lists   *)
(* no base token.                                                          *)

C10_LeftBase(gs, returned, i, t) ==
  /\ Len(returned.moveHistory) = Len(gs.moveHistory) + 1
  /\ LET move == returned.moveHistory[Len(returned.moveHistory)]
     IN /\ move.diceValue = 6
        /\ move.playerIndex = i
        /\ move.tokenId = TokenAt(gs, i, t).id
  /\ TokenAt(returned, i, t).stepsFromStart = 0
  /\ TokenAt(returned, i, t).position = gs.players[i].startPos

C10_NoBaseTokenListed(gs) ==
  \A k \in 1..Len(getValidMovesLocal(gs)) :
    CurrentPlayer(gs).tokens[getValidMovesLocal(gs)[k].tokenIndex].state # BASE

C10_LeavesBaseOnlyOnSix ==
  [][/\ \A i \in PlayerIndices : \A t \in TokenIndices :
          (TokenAt(gameState, i, t).state = BASE /\ TokenAt(gameState', i, t).state = ACTIVE)
            => C10_LeftBase(gameState, gameState', i, t)
     /\ \A i \in PlayerIndices : \A t \in TokenIndices :
          (TokenAt(gameState, i, t).state = BASE /\ TokenAt(gameState', i, t) # TokenAt(gameState, i, t))
            => TokenAt(gameState', i, t).state = ACTIVE
     /\ gameState.diceValue \in 1..5 => C10_NoBaseTokenListed(gameState)
     /\ (gameState.turnPhase = "roll" /\ ~gameState.gameOver) =>
          \A d \in 1..5 : C10_NoBaseTokenListed(Rolled(gameState, d))]_vars

(* a green token has just left base on a 6 and stands on cell 13 *)
C10_Witness ==
  /\ Len(gameState.moveHistory) > 0
  /\ LastMove.diceValue = 6
  /\ LastMove.playerIndex = 1
  /\ \E t \in TokenIndices :
       /\ TokenAt(gameState, 1, t).id = LastMove.tokenId
       /\ TokenAt(gameState, 1, t).state = ACTIVE
       /\ TokenAt(gameState, 1, t).stepsFromStart = 0
       /\ TokenAt(gameState, 1, t).position = 13

----------------------------------------------------------------------------
(* Vocabulary of the properties about applied moves *)

(* the call that returned the state has applied a move *)
Applied(gs, returned) == Len(returned.moveHistory) = Len(gs.moveHistory) + 1

MoveOf(returned) == returned.moveHistory[Len(returned.moveHistory)]

(* the token the move has moved, as it is in the returned state *)
MovedToken(returned) ==
  LET move == MoveOf(returned)
  IN TokenAt(returned, move.playerIndex,
             CHOOSE m \in TokenIndices :
               TokenAt(returned, move.playerIndex, m).id = move.tokenId)

(* the main-track cell the move has ended on; -1 when it has ended in the  *)
(* home stretch or at home                                                 *)
Destination(returned) ==
  IF MovedToken(returned).state = ACTIVE /\ MovedToken(returned).homeStretchPos < 0
    THEN MovedToken(returned).position
    ELSE -1

(* the opposing tokens standing on a main-track cell *)
Occupants(gs, mover, cell) ==
  {o \in (DOMAIN gs.players) \X TokenIndices :
     /\ o[1] # mover
     /\ TokenAt(gs, o[1], o[2]).state = ACTIVE
     /\ TokenAt(gs, o[1], o[2]).position = cell
     /\ TokenAt(gs, o[1], o[2]).homeStretchPos < 0}

SentToBase(token) ==
  [token EXCEPT !.state = BASE, !.position = -1,
                !.homeStretchPos = -1, !.stepsFromStart = 0]

(* the opposing tokens the call has changed *)
ChangedOpponents(gs, returned) ==
  {o \in (DOMAIN gs.players) \X TokenIndices :
     /\ o[1] # MoveOf(returned).playerIndex
     /\ TokenAt(returned, o[1], o[2]) # TokenAt(gs, o[1], o[2])}

----------------------------------------------------------------------------
(* C11: a move that ends on one of the safe cells 0, 8, 13, 21, 26, 34,    *)
(* 39, 47 changes no opposing token, whoever moves and whoever stands      *)
(* there; and in no state does the capture check find a token on a safe    *)
(* cell, for any mover.                                                    *)

C11_SafeCellsNeverCapture ==
  [][/\ (Applied(gameState, gameState') /\ Destination(gameState') \in SAFE_SQUARES)
          => ChangedOpponents(gameState, gameState') = {}
     /\ \A cell \in {0, 8, 13, 21, 26, 34, 39, 47} : \A mover \in PlayerIndices :
          checkCapture(gameState, mover, cell) = NoCapture]_vars

(* a rolled move has ended on a safe cell on which an opposing token that  *)
(* has left its own start cell behind stands                               *)
C11_Witness ==
  /\ Len(gameState.moveHistory) > 0
  /\ LastMove.diceValue \in rollDieValue
  /\ Destination(gameState) \in SAFE_SQUARES
  /\ MovedToken(gameState).stepsFromStart > 0
  /\ Occupants(gameState, LastMove.playerIndex, Destination(gameState)) # {}

----------------------------------------------------------------------------
(* C12: a move that ends on a main-track cell that is not safe and on      *)
(* which exactly one opposing active token stands (outside its home        *)
(* stretch) sends that token back to base (no position, no home-stretch    *)
(* position, stepsFromStart = 0); the moved token stands on the cell.      *)

C12_SingleOccupantIsCaptured ==
  [][Applied(gameState, gameState') =>
       LET cell == Destination(gameState')
           occupants == Occupants(gameState, MoveOf(gameState').playerIndex, cell)
       IN (cell \in 0..51 /\ cell \notin SAFE_SQUARES /\ Cardinality(occupants) = 1) =>
            /\ \A o \in occupants :
                 /\ TokenAt(gameState', o[1], o[2]) = SentToBase(TokenAt(gameState, o[1], o[2]))
                 /\ TokenAt(gameState', o[1], o[2]).state = BASE
                 /\ TokenAt(gameState', o[1], o[2]).position = -1
                 /\ TokenAt(gameState', o[1], o[2]).homeStretchPos = -1
                 /\ TokenAt(gameState', o[1], o[2]).stepsFromStart = 0
            /\ MovedToken(gameState').state = ACTIVE
            /\ MovedToken(gameState').position = cell]_vars

(* a rolled move has captured and the mover is the only one left on the    *)
(* cell, which is not safe                                                 *)
C12_Witness ==
  /\ HasMessage(" Captured a token!")
  /\ LastMove.diceValue \in rollDieValue
  /\ Destination(gameState) \in 0..51
  /\ Destination(gameState) \notin SAFE_SQUARES
  /\ Occupants(gameState, LastMove.playerIndex, Destination(gameState)) = {}

----------------------------------------------------------------------------
(* C13: a move changes at most one opposing token.  When opposing tokens   *)
(* stand on the cell it ends on and the cell is not safe, the one sent to  *)
(* base is the first in player order (the mover left out) and, within the  *)
(* player, in token order; the others stay as they are, on the cell.       *)

C13_First(occupants) ==
  CHOOSE f \in occupants :
    \A o \in occupants : f[1] < o[1] \/ (f[1] = o[1] /\ f[2] <= o[2])

C13_AtMostOneCapture ==
  [][Applied(gameState, gameState') =>
       LET cell == Destination(gameState')
           occupants == Occupants(gameState, MoveOf(gameState').playerIndex, cell)
       IN /\ Cardinality(ChangedOpponents(gameState, gameState')) <= 1
          /\ (cell \in 0..51 /\ cell \notin SAFE_SQUARES /\ occupants # {}) =>
               /\ TokenAt(gameState', C13_First(occupants)[1], C13_First(occupants)[2]).state = BASE
               /\ ChangedOpponents(gameState, gameState') = {C13_First(occupants)}
               /\ \A o \in occupants \ {C13_First(occupants)} :
                    /\ TokenAt(gameState', o[1], o[2]).state = ACTIVE
                    /\ TokenAt(gameState', o[1], o[2]).position = cell]_vars

(* the second player has moved onto a cell on which a token of the first   *)
(* and a token of the third player stood: the first player's token is in   *)
(* base, the third player's shares the cell with the mover                 *)
C13_Witness ==
  /\ HasMessage(" Captured a token!")
  /\ LastMove.playerIndex = 1
  /\ LastMove.diceValue \in rollDieValue
  /\ Destination(gameState) = 28
  /\ TokenAt(gameState, 0, 0).state = BASE
  /\ \E t \in TokenIndices : <<2, t>> \in Occupants(gameState, 1, 28)

----------------------------------------------------------------------------
(* Vocabulary of the properties about turns *)

(* the next player after cur, in cyclic order, that has not finished; cur  *)
(* when there is none                                                      *)
NextUnfinished(players, cur) ==
  LET n == Cardinality(DOMAIN players)
      ahead == {k \in 1..n : ~players[(cur + k) % n].hasFinished}
  IN IF ahead = {} THEN cur
     ELSE (cur + CHOOSE k \in ahead : \A l \in ahead : k <= l) % n

(* a roll may be made: the roll phase of a game that is not over *)
MayRoll(gs) == gs.turnPhase = "roll" /\ ~gs.gameOver

(* the tokens of the current player that may move by d *)
MovableTokens(gs, d) ==
  {t \in TokenIndices : C9_Movable(CurrentPlayer(gs).tokens[t], d)}

(* the roll of d would be the third six in a row of the current player *)
ThirdSix(d) == d = 6 /\ sixStreak = 2

(* the roll has changed no token and recorded no move, has cleared the     *)
(* dice and has left the roll phase on                                     *)
OnlyTurnResolved(gs, returned) ==
  /\ returned.players = gs.players
  /\ returned.moveHistory = gs.moveHistory
  /\ returned.diceValue = Null
  /\ returned.turnPhase = "roll"

----------------------------------------------------------------------------
(* C14: after an applied move produced by a roll other than six that does  *)
(* not end the game, the mover is still the current player if the move     *)
(* captured, and otherwise the current player is the next player that has  *)
(* not finished; the turn phase is roll and there is no dice value.        *)

C14_TurnAfterNonSixMove ==
  [][(/\ Applied(gameState, gameState')
      /\ MoveOf(gameState').diceValue \in 1..5
      /\ ~gameState'.gameOver) =>
       LET mover == MoveOf(gameState').playerIndex
       IN /\ mover = gameState.currentPlayerIndex
          /\ gameState'.currentPlayerIndex =
               IF ChangedOpponents(gameState, gameState') # {}
                 THEN mover
                 ELSE NextUnfinished(gameState'.players, mover)
          /\ gameState'.turnPhase = "roll"
          /\ gameState'.diceValue = Null]_vars

(* a move produced by a roll other than six has captured and the mover is  *)
(* to roll                                                                 *)
C14_Witness ==
  /\ HasMessage(" Captured a token!")
  /\ LastMove.diceValue \in 1..5
  /\ gameState.currentPlayerIndex = LastMove.playerIndex
  /\ MayRoll(gameState)
  /\ gameState.diceValue = Null

----------------------------------------------------------------------------
(* C15: after a move produced by a six is applied, by the roll itself or   *)
(* by moveLocalToken, and the game is not over, the roller is still the    *)
(* current player, the turn phase is roll and the next roll is accepted.   *)

C15_SixKeepsTurn ==
  [][(/\ Applied(gameState, gameState')
      /\ MoveOf(gameState').diceValue = 6
      /\ ~gameState'.gameOver) =>
       /\ MoveOf(gameState').playerIndex = gameState.currentPlayerIndex
       /\ gameState'.currentPlayerIndex = gameState.currentPlayerIndex
       /\ gameState'.turnPhase = "roll"
       /\ \A d \in rollDieValue :
            rollLocalDice(gameState', d).message
              \notin {<<"Game is over!">>, <<"You must move a token first!">>}]_vars

(* a six has moved the only token of the roller that is not home, so the   *)
(* roll itself applied the move, and the roller is to roll again           *)
C15_Witness ==
  /\ Len(gameState.moveHistory) > 0
  /\ LastMove.diceValue = 6
  /\ gameState.currentPlayerIndex = LastMove.playerIndex
  /\ MayRoll(gameState)
  /\ MovedToken(gameState).state = ACTIVE
  /\ Cardinality({t \in TokenIndices :
                    CurrentPlayer(gameState).tokens[t].state = HOME}) = 3

----------------------------------------------------------------------------
(* C16: when the current player has rolled two sixes in a row, a roll of a *)
(* third six changes no token and records no move, whether or not a token  *)
(* could move; it leaves no dice value, consecutiveSixes = 0, the roll     *)
(* phase, and the next player that has not finished as current player.     *)

C16_ThirdSixForfeits ==
  (MayRoll(gameState) /\ ThirdSix(6)) =>
    LET returned == rollLocalDice(gameState, 6)
    IN /\ OnlyTurnResolved(gameState, returned)
       /\ returned.consecutiveSixes = 0
       /\ returned.currentPlayerIndex =
            NextUnfinished(gameState.players, gameState.currentPlayerIndex)

(* a third six has just lost the turn of a player who had a token to move *)
C16_Witness ==
  /\ gameState.message = <<" rolled three 6s! Turn lost.", "'s turn.">>
  /\ sixStreak = 0
  /\ \E i \in PlayerIndices :
       /\ i # gameState.currentPlayerIndex
       /\ \E t \in TokenIndices : TokenAt(gameState, i, t).state = ACTIVE
       /\ Len(gameState.moveHistory) > 0
       /\ LastMove.playerIndex = i
       /\ LastMove.diceValue = 6

----------------------------------------------------------------------------
(* C17: a roll for which the current player has no token to move changes   *)
(* no token, records no move, leaves no dice value and the roll phase; the *)
(* turn passes to the next player that has not finished unless the roll is *)
(* a six (not the third in a row), which leaves the roller to roll again.  *)

C17_NoMoveRoll ==
  MayRoll(gameState) =>
    \A d \in rollDieValue :
      (MovableTokens(gameState, d) = {} /\ ~ThirdSix(d)) =>
        LET returned == rollLocalDice(gameState, d)
        IN /\ OnlyTurnResolved(gameState, returned)
           /\ returned.currentPlayerIndex =
                IF d = 6 THEN gameState.currentPlayerIndex
                ELSE NextUnfinished(gameState.players, gameState.currentPlayerIndex)

(* a six without a token to move has left the roller to roll again *)
C17_Witness ==
  /\ gameState.message = <<" rolled N but has no valid moves. Roll again!">>
  /\ MayRoll(gameState)
  /\ gameState.diceValue = Null
  /\ sixStreak \in 1..2
  /\ MovableTokens(gameState, 6) = {}

----------------------------------------------------------------------------
(* C18: a roll for which exactly one token of the current player may move  *)
(* (and which is not a third six in a row) returns what moveLocalToken     *)
(* returns for that token on the rolled state: the move is recorded, turn  *)
(* and win are resolved, and the returned state is never in the move phase.*)

(* the state in which the roll of d has been made and no move yet *)
C18_RolledState(gs, d) ==
  [gs EXCEPT !.diceValue = d,
             !.diceRolled = TRUE,
             !.consecutiveSixes = IF d = 6 THEN sixStreak + 1 ELSE 0,
             !.hasExtraTurn = (d = 6)]

----------------------------------------------------------------------------
(* C19: in the move phase the dice value is one of 1..6, the game is not   *)
(* over, and more than one valid move is listed, each one a token of the   *)
(* current player.                                                         *)

C19_MovePhase ==
  gameState.turnPhase = "move" =>
    LET validMoves == getValidMovesLocal(gameState)
    IN /\ gameState.diceValue \in 1..6
       /\ ~gameState.gameOver
       /\ Len(validMoves) > 1
       /\ Cardinality(MovableTokens(gameState, gameState.diceValue)) > 1
       /\ \A k \in 1..Len(validMoves) :
            /\ validMoves[k].tokenIndex \in TokenIndices
            /\ validMoves[k].tokenId =
                 CurrentPlayer(gameState).tokens[validMoves[k].tokenIndex].id
            /\ validMoves[k].tokenId[1] = CurrentPlayer(gameState).color

(* a roll other than six has left a choice between two tokens on the track *)
C19_Witness ==
  /\ gameState.turnPhase = "move"
  /\ gameState.diceValue \in 1..5
  /\ Cardinality({t \in TokenIndices :
                    CurrentPlayer(gameState).tokens[t].state = ACTIVE}) > 1
  /\ Len(getValidMovesLocal(gameState)) > 1

----------------------------------------------------------------------------
(* C20: there is a dice value exactly in the move phase: it is one of 1..6 *)
(* there, and absent in the roll phase, so after every applied move, every *)
(* pass without a move and every forfeited third six.                      *)

C20_DiceIffMovePhase ==
  /\ gameState.turnPhase \in {"roll", "move"}
  /\ gameState.diceValue \in rollDieValue \cup {Null}
  /\ gameState.diceValue \in rollDieValue <=> gameState.turnPhase = "move"
  /\ gameState.diceValue = Null <=> gameState.turnPhase = "roll"

(* a chosen move has been applied from the move phase and a pass without a *)
(* move has followed: both have left no dice value and the roll phase      *)
C20_Witness ==
  /\ gameState.message = <<" rolled N but has no valid moves.", "'s turn.">>
  /\ gameState.turnPhase = "roll"
  /\ gameState.diceValue = Null
  /\ Len(gameState.moveHistory) > 0
  /\ LastMove.diceValue \in 1..6

----------------------------------------------------------------------------
(* Vocabulary of the properties about the end of the game *)

HomeTokens(gs, i) == {t \in TokenIndices : TokenAt(gs, i, t).state = HOME}

(* the applied move has brought the fourth token of its mover home *)
BroughtFourthHome(gs, returned) ==
  /\ Applied(gs, returned)
  /\ MovedToken(returned).state = HOME
  /\ Cardinality(HomeTokens(gs, MoveOf(returned).playerIndex)) = TOKENS_PER_PLAYER - 1
  /\ Cardinality(HomeTokens(returned, MoveOf(returned).playerIndex)) = TOKENS_PER_PLAYER

----------------------------------------------------------------------------
(* C21: the move that brings a player's fourth token home returns a state  *)
(* in which that player has hasFinished, gameOver is true, winner is the   *)
(* player's index and finishOrder holds that index alone; from then on     *)
(* every call leaves gameOver, winner, finishOrder, every hasFinished and  *)
(* every token as they are.                                                *)

C21_FirstFinisherWins ==
  [][/\ BroughtFourthHome(gameState, gameState') =>
          LET i == MoveOf(gameState').playerIndex
          IN /\ gameState'.players[i].hasFinished
             /\ gameState'.gameOver
             /\ gameState'.winner = i
             /\ gameState'.finishOrder = <<i>>
     /\ gameState.gameOver =>
          /\ gameState'.gameOver
          /\ gameState'.winner = gameState.winner
          /\ gameState'.finishOrder = gameState.finishOrder
          /\ \A i \in PlayerIndices :
               /\ gameState'.players[i].hasFinished = gameState.players[i].hasFinished
               /\ gameState'.players[i].tokens = gameState.players[i].tokens]_vars

(* the winner's fourth token is home and a later call has been answered *)
C21_Witness ==
  /\ gameState.gameOver
  /\ gameState.message = <<"Game is over!">>
  /\ gameState.winner \in PlayerIndices
  /\ Cardinality(HomeTokens(gameState, gameState.winner)) = TOKENS_PER_PLAYER
  /\ gameState.finishOrder = <<gameState.winner>>

----------------------------------------------------------------------------
(* C22: in every reachable state a player has hasFinished exactly when all *)
(* four of its tokens are home, and a hasFinished that is true stays true  *)
(* in every later state.                                                   *)

C22_FinishedIffAllHome ==
  /\ [](\A i \in PlayerIndices :
          gameState.players[i].hasFinished
            <=> Cardinality(HomeTokens(gameState, i)) = TOKENS_PER_PLAYER)
  /\ [][\A i \in PlayerIndices :
          gameState.players[i].hasFinished => gameState'.players[i].hasFinished]_vars

(* one player has finished with four tokens home, the other has not, and   *)
(* a call has been made since                                              *)
C22_Witness ==
  /\ \E i \in PlayerIndices :
       /\ gameState.players[i].hasFinished
       /\ HomeTokens(gameState, i) = TokenIndices
  /\ \E i \in PlayerIndices :
       /\ ~gameState.players[i].hasFinished
       /\ HomeTokens(gameState, i) # TokenIndices
  /\ gameState.message # <<" WINS! Congratulations!">>

----------------------------------------------------------------------------
(* C23: in every reachable state gameOver is true exactly when there is a  *)
(* winner and exactly when some player has hasFinished; finishOrder has no *)
(* duplicates and at most one entry; when gameOver is true finishOrder     *)
(* holds the winner alone, the winner's rank (its finishOrder field) is 0  *)
(* and every other player's rank is -1.                                    *)

C23_GameOverWinnerFinishOrder ==
  /\ gameState.gameOver <=> gameState.winner # Null
  /\ gameState.gameOver <=> \E i \in PlayerIndices : gameState.players[i].hasFinished
  /\ Len(gameState.finishOrder) <= 1
  /\ \A k, l \in 1..Len(gameState.finishOrder) :
       gameState.finishOrder[k] = gameState.finishOrder[l] => k = l
  /\ gameState.gameOver =>
       /\ gameState.winner \in PlayerIndices
       /\ gameState.finishOrder = <<gameState.winner>>
       /\ \A i \in PlayerIndices :
            gameState.players[i].finishOrder = IF i = gameState.winner THEN 0 ELSE -1
  /\ ~gameState.gameOver =>
       /\ gameState.finishOrder = <<>>
       /\ \A i \in PlayerIndices : gameState.players[i].finishOrder = -1

(* the first of three players has finished and the game is over *)
C23_Witness ==
  /\ Cardinality(PlayerIndices) = 3
  /\ gameState.gameOver
  /\ gameState.winner = 0
  /\ gameState.players[0].hasFinished
  /\ gameState.players[0].finishOrder = 0
  /\ gameState.finishOrder = <<0>>
  /\ Cardinality({i \in PlayerIndices : ~gameState.players[i].hasFinished}) = 2

----------------------------------------------------------------------------
(* C24: in every reachable state currentPlayerIndex is an index of players *)
(* and, unless the game is over, the player it points to has not finished. *)

C24_CurrentPlayerIsPlaying ==
  /\ gameState.currentPlayerIndex \in 0..(Cardinality(PlayerIndices) - 1)
  /\ gameState.currentPlayerIndex \in PlayerIndices
  /\ ~gameState.gameOver => ~CurrentPlayer(gameState).hasFinished

(* the turn has passed from the last of three players to the first *)
C24_Witness ==
  /\ Cardinality(PlayerIndices) = 3
  /\ ~gameState.gameOver
  /\ gameState.currentPlayerIndex = 0
  /\ ~CurrentPlayer(gameState).hasFinished
  /\ Len(gameState.moveHistory) > 0
  /\ LastMove.playerIndex = 2
  /\ HasMessage("'s turn.")

----------------------------------------------------------------------------
(* C25: moveHistory is append-only with one record per applied move: every *)
(* call returns a moveHistory of which the input's is a prefix, longer by  *)
(* one when a token has been moved and of the same length otherwise; each  *)
(* record holds the index of the mover, the id of one of the mover's       *)
(* tokens and a dice value in 1..6.                                        *)

C25_TokensMoved(gs, returned) ==
  \E i \in PlayerIndices : returned.players[i].tokens # gs.players[i].tokens

C25_Record(gs, move) ==
  /\ move.playerIndex \in PlayerIndices
  /\ \E t \in TokenIndices : TokenAt(gs, move.playerIndex, t).id = move.tokenId
  /\ move.diceValue \in 1..6

C25_MoveHistoryAppendOnly ==
  [][/\ Len(gameState'.moveHistory) >= Len(gameState.moveHistory)
     /\ SubSeq(gameState'.moveHistory, 1, Len(gameState.moveHistory))
          = gameState.moveHistory
     /\ Len(gameState'.moveHistory) =
          Len(gameState.moveHistory)
            + (IF C25_TokensMoved(gameState, gameState') THEN 1 ELSE 0)
     /\ \A k \in 1..Len(gameState'.moveHistory) :
          C25_Record(gameState', gameState'.moveHistory[k])
     /\ Applied(gameState, gameState') =>
          MoveOf(gameState').playerIndex = gameState.currentPlayerIndex]_vars

----------------------------------------------------------------------------
(* C26: consecutiveSixes is 0 in every state returned by a roll that drew  *)
(* another value than six and in every returned state whose current player *)
(* is not the one of the input state, so a streak of sixes never carries   *)
(* over from one player to the next: consecutiveSixes is the number of     *)
(* sixes the current player has rolled in a row.                           *)

C26_SixesResetOnNonSixAndHandover ==
  /\ [](/\ MayRoll(gameState) =>
             \A d \in rollDieValue \ {6} :
               rollLocalDice(gameState, d).consecutiveSixes = 0
        /\ gameState.consecutiveSixes = sixStreak)
  /\ [][gameState'.currentPlayerIndex # gameState.currentPlayerIndex
          => gameState'.consecutiveSixes = 0]_vars

(* a player who had rolled a six has handed the turn over after a roll     *)
(* other than six, and the next player has rolled a first six              *)
C26_Witness ==
  /\ gameState.consecutiveSixes = 1
  /\ gameState.turnPhase = "move"
  /\ gameState.diceValue = 6
  /\ Len(gameState.moveHistory) > 1
  /\ LastMove.playerIndex # gameState.currentPlayerIndex
  /\ LastMove.diceValue \in 1..5
  /\ gameState.moveHistory[Len(gameState.moveHistory) - 1].diceValue = 6
  /\ gameState.moveHistory[Len(gameState.moveHistory) - 1].playerIndex = LastMove.playerIndex

----------------------------------------------------------------------------
(* C27: in the state returned by an applied move the hasExtraTurn field    *)
(* tells whether the mover retains the turn: it is true exactly when the   *)
(* move was produced by a six or captured a token (the mover still being   *)
(* the current player) and false when the turn was handed over.            *)

C27_Retains(gs, returned) ==
  /\ MoveOf(returned).diceValue = 6 \/ ChangedOpponents(gs, returned) # {}
  /\ returned.currentPlayerIndex = MoveOf(returned).playerIndex

C27_ExtraTurnFieldTellsRetention ==
  [][Applied(gameState, gameState') =>
       (gameState'.hasExtraTurn <=> C27_Retains(gameState, gameState'))]_vars

(* C27, as the code has it: in the state returned by an applied move the   *)
(* hasExtraTurn field is always false, also when the move was produced by  *)
(* a six or captured a token and the mover retains the turn, that is, is   *)
(* still the current player.                                               *)

C27_ExtraTurnFieldIsCleared ==
  [][Applied(gameState, gameState') =>
       /\ ~gameState'.hasExtraTurn
       /\ (MoveOf(gameState').diceValue = 6
             \/ ChangedOpponents(gameState, gameState') # {})
            => gameState'.currentPlayerIndex = MoveOf(gameState').playerIndex]_vars

(* a six has moved a token, its mover is to roll again and the field is    *)
(* false                                                                   *)
C27_Witness ==
  /\ Len(gameState.moveHistory) > 0
  /\ LastMove.diceValue = 6
  /\ gameState.currentPlayerIndex = LastMove.playerIndex
  /\ HasMessage(" gets another turn!")
  /\ ~gameState.hasExtraTurn
  /\ ~gameState.gameOver

----------------------------------------------------------------------------
(* The setup.  handleStartGame calls createLocalGame with the configuration *)
(* of the setup screen and keeps the state it returns; when the call       *)
(* throws, no game is kept.  The configurations are bounded: a player      *)
(* count of 0..MaxPlayerCount, at most MaxNames names and at most          *)
(* MaxColors colors, an entry being a value or the empty string.           *)

MaxPlayerCount == 5

MaxNames == 1

MaxColors == 3

Colors == {defaultColors[i] : i \in DOMAIN defaultColors}

SeqsUpTo(S, n) == UNION {[1..k -> S] : k \in 0..n}

Configs ==
  [playerCount : 0..MaxPlayerCount,
   playerNames : SeqsUpTo({"", "Ann"}, MaxNames),
   playerColors : SeqsUpTo(Colors \cup {""}, MaxColors)]

(* the callers hold no game *)
NoGame == [id |-> Null]

SetupInit ==
  /\ app = AppOn("setup")
  /\ lookup = NoLookup
  /\ coords = NoCoords
  /\ config \in Configs
  /\ created = "setup"
  /\ gameState = NoGame
  /\ script = <<>>
  /\ free = 0
  /\ sixStreak = 0

(* a bound of the App runs: the games started *)
MaxGames == 2

handleStartGame ==
  /\ app.screen = "setup"
  /\ app.game < MaxGames
  /\ IF createLocalGameThrows(config.playerCount, config.playerNames, config.playerColors)
       THEN /\ created' = "TypeError"
            /\ gameState' = gameState
            /\ app' = app
       ELSE /\ created' = "returned"
            /\ gameState' = createLocalGame(config.playerCount, config.playerNames,
                                            config.playerColors)
            /\ app' = [app EXCEPT !.validMoves = <<>>,
                                  !.showWinModal = FALSE,
                                  !.screen = "playing",
                                  !.game = @ + 1,
                                  !.heldGame = app.game + 1]
  /\ UNCHANGED <<config, script, free, sixStreak, lookup, coords>>

SetupNext == handleStartGame

SetupSpec == SetupInit /\ [][SetupNext]_vars

(* the color createLocalGame is given for player i; "" when it is given    *)
(* none                                                                    *)
GivenColor(i) ==
  IF i + 1 \in DOMAIN config.playerColors THEN config.playerColors[i + 1] ELSE ""

----------------------------------------------------------------------------
(* C28: for a player count of 2, 3 or 4 and any names and colors, given or *)
(* defaulted, createLocalGame returns a state with exactly playerCount     *)
(* players indexed from 0, each with four tokens in base (position -1,     *)
(* homeStretchPos -1, stepsFromStart 0) and with the start cell of its     *)
(* color (red 0, green 13, yellow 26, blue 39), in the roll phase, with    *)
(* current player 0, no dice value, consecutiveSixes 0, the game not over, *)
(* no winner and empty finishOrder and moveHistory.                        *)

C28_StartOf(color) ==
  CASE color = "red" -> 0 [] color = "green" -> 13
    [] color = "yellow" -> 26 [] color = "blue" -> 39

C28_DefaultColor(i) ==
  CASE i = 0 -> "red" [] i = 1 -> "green" [] i = 2 -> "yellow" [] i = 3 -> "blue"

C28_NewGame ==
  (created # "setup" /\ config.playerCount \in 2..4) =>
    /\ created = "returned"
    /\ DOMAIN gameState.players = 0..(config.playerCount - 1)
    /\ \A i \in DOMAIN gameState.players :
         LET player == gameState.players[i]
         IN /\ player.index = i
            /\ player.color = IF GivenColor(i) # "" THEN GivenColor(i)
                              ELSE C28_DefaultColor(i)
            /\ player.startPos = C28_StartOf(player.color)
            /\ ~player.hasFinished
            /\ DOMAIN player.tokens = 0..3
            /\ \A t \in DOMAIN player.tokens :
                 /\ player.tokens[t].state = BASE
                 /\ player.tokens[t].position = -1
                 /\ player.tokens[t].homeStretchPos = -1
                 /\ player.tokens[t].stepsFromStart = 0
    /\ gameState.turnPhase = "roll"
    /\ gameState.currentPlayerIndex = 0
    /\ gameState.diceValue = Null
    /\ gameState.consecutiveSixes = 0
    /\ ~gameState.gameOver
    /\ gameState.winner = Null
    /\ gameState.finishOrder = <<>>
    /\ gameState.moveHistory = <<>>

(* a game of four has been created, the second player with the given color *)
(* blue and the last with a defaulted color                                *)
C28_Witness ==
  /\ created = "returned"
  /\ config.playerCount = 4
  /\ GivenColor(1) = "blue"
  /\ GivenColor(3) = ""
  /\ gameState.players[1].startPos = 39
  /\ gameState.players[3].color = "blue"
  /\ \A i \in 0..3 : gameState.players[i].tokens[3].state = BASE

----------------------------------------------------------------------------
(* C29: createLocalGame clamps a player count out of range: below 2 it     *)
(* makes a game of 2 players and above 4 a game of 4, so every created     *)
(* game has 2 to 4 players and the call never faults.                      *)

C29_Clamped(playerCount) ==
  IF playerCount < 2 THEN 2 ELSE IF playerCount > 4 THEN 4 ELSE playerCount

C29_PlayerCountIsClamped ==
  created # "setup" =>
    /\ created = "returned"
    /\ Cardinality(DOMAIN gameState.players) = C29_Clamped(config.playerCount)
    /\ Cardinality(DOMAIN gameState.players) \in 2..4

----------------------------------------------------------------------------
(* C30: in every game createLocalGame returns for a configuration whose    *)
(* given colors are pairwise distinct, entries that are missing being      *)
(* filled from the default cycle red, green, yellow, blue, the colors of   *)
(* the players are pairwise distinct and so are the ids of all tokens of   *)
(* the game.                                                               *)

C30_GivenColorsDistinct ==
  \A k, l \in DOMAIN config.playerColors :
    (config.playerColors[k] # "" /\ config.playerColors[k] = config.playerColors[l])
      => k = l

C30_ColorsAndIdsDistinct ==
  (created = "returned" /\ C30_GivenColorsDistinct) =>
    /\ \A i, j \in DOMAIN gameState.players :
         gameState.players[i].color = gameState.players[j].color => i = j
    /\ \A i, j \in DOMAIN gameState.players : \A t, u \in TokenIndices :
         gameState.players[i].tokens[t].id = gameState.players[j].tokens[u].id
           => (i = j /\ t = u)

----------------------------------------------------------------------------
(* C31: an applied move changes exactly one token of the mover, the chosen *)
(* one, and at most one token of the other players; every other token is   *)
(* unchanged.  In particular a token of the mover that stands on the cell  *)
(* the move ends on is not reset.                                          *)

(* the tokens of the mover the call has changed *)
C31_ChangedOwn(gs, returned) ==
  {t \in TokenIndices :
     TokenAt(returned, MoveOf(returned).playerIndex, t)
       # TokenAt(gs, MoveOf(returned).playerIndex, t)}

C31_OneTokenOfEachSide ==
  [][Applied(gameState, gameState') =>
       /\ C31_ChangedOwn(gameState, gameState')
            = {t \in TokenIndices :
                 TokenAt(gameState, MoveOf(gameState').playerIndex, t).id
                   = MoveOf(gameState').tokenId}
       /\ Cardinality(C31_ChangedOwn(gameState, gameState')) = 1
       /\ Cardinality(ChangedOpponents(gameState, gameState')) <= 1]_vars

----------------------------------------------------------------------------
(* The geometry tables of the 15x15 board.  A coordinate { row, col } is a *)
(* record; a JavaScript array is a sequence, entry i+1 for index i.        *)

Cell(rc) == [row |-> rc[1], col |-> rc[2]]

Cells(rcs) == [k \in 1..Len(rcs) |-> Cell(rcs[k])]

(* the center of the board: the fallback of the three lookups and the cell *)
(* of the tokens that are home                                             *)
Center == Cell(<<7, 7>>)

(* a plausible slip: the table begins with the second cell of the path *)
pathCoords_FromSecond ==
  Cells(<<
    <<12, 6>>, <<11, 6>>, <<10, 6>>, <<9, 6>>, <<8, 5>>, <<8, 4>>,
    <<8, 3>>, <<8, 2>>, <<8, 1>>, <<8, 0>>, <<7, 0>>, <<6, 0>>,
    <<6, 1>>, <<6, 2>>, <<6, 3>>, <<6, 4>>, <<6, 5>>, <<5, 6>>,
    <<4, 6>>, <<3, 6>>, <<2, 6>>, <<1, 6>>, <<0, 6>>, <<0, 7>>,
    <<0, 8>>, <<1, 8>>, <<2, 8>>, <<3, 8>>, <<4, 8>>, <<5, 8>>,
    <<6, 9>>, <<6, 10>>, <<6, 11>>, <<6, 12>>, <<6, 13>>, <<6, 14>>,
    <<7, 14>>, <<8, 14>>, <<8, 13>>, <<8, 12>>, <<8, 11>>, <<8, 10>>,
    <<8, 9>>, <<9, 8>>, <<10, 8>>, <<11, 8>>, <<12, 8>>, <<13, 8>>,
    <<14, 8>>, <<14, 7>>, <<14, 6>>, <<13, 7>>>>)

pathCoords ==
  Cells(<<
    <<13, 6>>, <<12, 6>>, <<11, 6>>, <<10, 6>>, <<9, 6>>, <<8, 5>>,
    <<8, 4>>, <<8, 3>>, <<8, 2>>, <<8, 1>>, <<8, 0>>, <<7, 0>>,
    <<6, 0>>, <<6, 1>>, <<6, 2>>, <<6, 3>>, <<6, 4>>, <<6, 5>>,
    <<5, 6>>, <<4, 6>>, <<3, 6>>, <<2, 6>>, <<1, 6>>, <<0, 6>>,
    <<0, 7>>, <<0, 8>>, <<1, 8>>, <<2, 8>>, <<3, 8>>, <<4, 8>>,
    <<5, 8>>, <<6, 9>>, <<6, 10>>, <<6, 11>>, <<6, 12>>, <<6, 13>>,
    <<6, 14>>, <<7, 14>>, <<8, 14>>, <<8, 13>>, <<8, 12>>, <<8, 11>>,
    <<8, 10>>, <<8, 9>>, <<9, 8>>, <<10, 8>>, <<11, 8>>, <<12, 8>>,
    <<13, 8>>, <<14, 8>>, <<14, 7>>, <<14, 6>>, <<13, 7>>>>)

getBoardCoordinates(position) ==
  IF position >= 0 /\ position < Len(pathCoords)
    THEN pathCoords[position + 1]
    ELSE Center

homeStretchPaths ==
  [color \in {"red", "green", "yellow", "blue"} |->
     CASE color = "red" -> Cells(<<<<13, 7>>, <<12, 7>>, <<11, 7>>, <<10, 7>>, <<9, 7>>>>)
       [] color = "green" -> Cells(<<<<7, 1>>, <<7, 2>>, <<7, 3>>, <<7, 4>>, <<7, 5>>>>)
       [] color = "yellow" -> Cells(<<<<1, 7>>, <<2, 7>>, <<3, 7>>, <<4, 7>>, <<5, 7>>>>)
       [] color = "blue" -> Cells(<<<<7, 13>>, <<7, 12>>, <<7, 11>>, <<7, 10>>, <<7, 9>>>>)]

getHomeStretchCoordinates(color, homeStretchPos) ==
  IF color \in DOMAIN homeStretchPaths
       /\ homeStretchPos >= 0 /\ homeStretchPos < Len(homeStretchPaths[color])
    THEN homeStretchPaths[color][homeStretchPos + 1]
    ELSE Center

bases ==
  [color \in {"red", "green", "yellow", "blue"} |->
     CASE color = "red" -> Cells(<<<<10, 1>>, <<10, 4>>, <<13, 1>>, <<13, 4>>>>)
       [] color = "green" -> Cells(<<<<1, 1>>, <<1, 4>>, <<4, 1>>, <<4, 4>>>>)
       [] color = "yellow" -> Cells(<<<<1, 10>>, <<1, 13>>, <<4, 10>>, <<4, 13>>>>)
       [] color = "blue" -> Cells(<<<<10, 10>>, <<10, 13>>, <<13, 10>>, <<13, 13>>>>)]

getBaseCoordinates(color, tokenIndex) ==
  IF color \in DOMAIN bases /\ tokenIndex >= 0 /\ tokenIndex < Len(bases[color])
    THEN bases[color][tokenIndex + 1]
    ELSE Center

(* The lookups are asked for a main-track position of -1..MaxPosition, and *)
(* for a home-stretch cell or a base slot of -1..MaxSlot of a color of the *)
(* game or of no color of the game.                                        *)

MaxPosition == 53

MaxSlot == 5

Lookups ==
  {[table |-> "track", color |-> "", index |-> position] : position \in -1..MaxPosition}
  \cup {[table |-> tb, color |-> color, index |-> k] :
          tb \in {"homeStretch", "base"}, color \in Colors \cup {"purple"},
          k \in -1..MaxSlot}

Coordinates(l) ==
  CASE l.table = "track" -> getBoardCoordinates(l.index)
    [] l.table = "homeStretch" -> getHomeStretchCoordinates(l.color, l.index)
    [] l.table = "base" -> getBaseCoordinates(l.color, l.index)

BoardInit ==
  /\ lookup \in Lookups
  /\ coords = NoCoords
  /\ gameState = NoGame
  /\ script = <<>>
  /\ free = 0
  /\ sixStreak = 0
  /\ config = [playerCount |-> 2, playerNames |-> <<>>, playerColors |-> <<>>]
  /\ created = "setup"
  /\ app = AppOn("setup")

GetCoordinates ==
  /\ coords = NoCoords
  /\ coords' = Coordinates(lookup)
  /\ UNCHANGED <<gameState, script, free, sixStreak, config, created, app, lookup>>

BoardNext == GetCoordinates

BoardSpec == BoardInit /\ [][BoardNext]_vars

----------------------------------------------------------------------------
(* Vocabulary of the properties about the geometry *)

(* the logical locations of the board: the main-track positions, the       *)
(* home-stretch cells and the base slots of the four colors                *)
Locations ==
  {[table |-> "track", color |-> "", index |-> position] :
     position \in 0..(BOARD_SIZE - 1)}
  \cup {[table |-> "homeStretch", color |-> color, index |-> k] :
          color \in Colors, k \in 0..(HOME_STRETCH_LENGTH - 1)}
  \cup {[table |-> "base", color |-> color, index |-> k] :
          color \in Colors, k \in 0..(TOKENS_PER_PLAYER - 1)}

(* two cells of the grid that touch, by a side or by a corner *)
Touching(a, b) ==
  /\ a # b
  /\ a.row - b.row \in -1..1
  /\ a.col - b.col \in -1..1

----------------------------------------------------------------------------
(* C33: the main-track table getBoardCoordinates consults has exactly 52   *)
(* entries, one per position 0..51, that form a closed path; a position    *)
(* outside 0..51, such as 52 or -1, gets the center cell (row 7, col 7),   *)
(* not a track cell.                                                       *)

(* the table has an entry for position *)
C33_HasEntry(position) == position + 1 \in DOMAIN pathCoords

C33_TrackTable ==
  (lookup.table = "track" /\ coords # NoCoords) =>
    /\ \A position \in 0..51 :
         Touching(getBoardCoordinates(position), getBoardCoordinates((position + 1) % 52))
    /\ C33_HasEntry(lookup.index) <=> lookup.index \in 0..51
    /\ IF lookup.index \in 0..51
         THEN coords = pathCoords[lookup.index + 1] /\ coords # Center
         ELSE coords = Center

----------------------------------------------------------------------------
(* C39: the geometry tables map no two logical locations to one cell of    *)
(* the grid: the cells of the main-track positions 0..51 are pairwise      *)
(* distinct and none of them is a home-stretch cell, a base slot or the    *)
(* center (row 7, col 7); the 20 home-stretch cells and the 16 base slots  *)
(* are pairwise distinct as well.                                          *)

C39_LocationsHaveDistinctCells ==
  (coords # NoCoords /\ lookup \in Locations) =>
    /\ \A l \in Locations : Coordinates(l) = coords => l = lookup
    /\ lookup.table = "track" => coords # Center

(* the cell of the last main-track position, next to the first cell of the *)
(* home stretch of red, has been looked up                                 *)
C39_Witness ==
  /\ lookup = [table |-> "track", color |-> "", index |-> BOARD_SIZE - 1]
  /\ coords = Cell(<<14, 6>>)
  /\ Touching(coords, getHomeStretchCoordinates("red", 0))

----------------------------------------------------------------------------
(* C36: the turn loop never gets stuck: in every reachable state of a game *)
(* that is not over, either the turn phase is roll and a roll is accepted, *)
(* whatever the die shows, or the turn phase is move and moveLocalToken is *)
(* accepted for at least one token of the current player and returns a     *)
(* state in the roll phase.                                                *)

C36_RollAccepted(gs, d) ==
  LET returned == rollLocalDice(gs, d)
  IN /\ returned.message
          \notin {<<"Game is over!">>, <<"You must move a token first!">>}
     /\ \/ returned.turnPhase = "move" /\ returned.diceValue = d
        \/ returned.turnPhase = "roll" /\ returned.diceValue = Null

C36_MoveAccepted(gs, t) ==
  LET returned == moveLocalToken(gs, CurrentPlayer(gs).tokens[t].id)
  IN /\ Applied(gs, returned)
     /\ returned.players[gs.currentPlayerIndex].tokens[t] # CurrentPlayer(gs).tokens[t]
     /\ returned.turnPhase = "roll"

C36_TurnLoopNeverStuck ==
  ~gameState.gameOver =>
    \/ /\ gameState.turnPhase = "roll"
       /\ \A d \in rollDieValue : C36_RollAccepted(gameState, d)
    \/ /\ gameState.turnPhase = "move"
       /\ \E t \in TokenIndices : C36_MoveAccepted(gameState, t)

(* a move is pending for a player with a token that may not move and       *)
(* tokens that may                                                         *)
C36_Witness ==
  /\ ~gameState.gameOver
  /\ gameState.turnPhase = "move"
  /\ \E t \in TokenIndices : ~C36_MoveAccepted(gameState, t)
  /\ \E t \in TokenIndices : C36_MoveAccepted(gameState, t)

----------------------------------------------------------------------------
(* C37: a move that brings a token out of base never captures: the start   *)
(* cell of every color is a safe square, the capture check at a player's   *)
(* start cell finds nothing, no opposing token standing on a start cell is *)
(* ever reset, and leaving base gives no extra turn for a capture.         *)

C37_StartCells == {0, 13, 26, 39}

C37_LeftBase(gs, returned) ==
  /\ Applied(gs, returned)
  /\ \E t \in TokenIndices :
       /\ TokenAt(gs, MoveOf(returned).playerIndex, t).id = MoveOf(returned).tokenId
       /\ TokenAt(gs, MoveOf(returned).playerIndex, t).state = BASE
       /\ TokenAt(returned, MoveOf(returned).playerIndex, t).state = ACTIVE

C37_LeavingBaseNeverCaptures ==
  /\ [](/\ \A k \in DOMAIN PLAYER_CONFIGS : PLAYER_CONFIGS[k].startPos \in SAFE_SQUARES
        /\ \A i \in PlayerIndices :
             /\ gameState.players[i].startPos \in C37_StartCells
             /\ checkCapture(gameState, i, gameState.players[i].startPos) = NoCapture)
  /\ [][Applied(gameState, gameState') =>
          /\ \A i \in PlayerIndices : \A t \in TokenIndices :
               (/\ TokenAt(gameState, i, t).state = ACTIVE
                /\ TokenAt(gameState, i, t).homeStretchPos < 0
                /\ TokenAt(gameState, i, t).position \in C37_StartCells
                /\ i # MoveOf(gameState').playerIndex)
                 => TokenAt(gameState', i, t) = TokenAt(gameState, i, t)
          /\ C37_LeftBase(gameState, gameState') =>
               /\ ChangedOpponents(gameState, gameState') = {}
               /\ MovedToken(gameState').position
                    = gameState.players[MoveOf(gameState').playerIndex].startPos
               /\ \A k \in 1..Len(gameState'.message) :
                    gameState'.message[k] # " Captured a token!"]_vars

(* a token has left base onto its start cell while a token of another      *)
(* player stands there, and that token still stands there                  *)
C37_Witness ==
  /\ Len(gameState.moveHistory) > 0
  /\ HasMessage(" moves a token to the starting position.")
  /\ MovedToken(gameState).state = ACTIVE
  /\ MovedToken(gameState).stepsFromStart = 0
  /\ Occupants(gameState, LastMove.playerIndex, MovedToken(gameState).position) # {}

----------------------------------------------------------------------------
(* C38: a player's tokens leave the main track for the home stretch at the *)
(* player's homeEntryPos = (startPos + 50) mod 52: in every reachable      *)
(* state every active token on the main track has stepsFromStart <= 50,    *)
(* and the step after homeEntryPos is home-stretch cell 0.                 *)

C38_LeavesTrackAtHomeEntry ==
  \A i \in PlayerIndices :
    /\ gameState.players[i].homeEntryPos = (gameState.players[i].startPos + 50) % 52
    /\ \A t \in TokenIndices :
         LET token == TokenAt(gameState, i, t)
         IN token.state = ACTIVE =>
              /\ token.homeStretchPos = -1 => token.stepsFromStart <= 50
              /\ token.stepsFromStart = 51 => token.homeStretchPos = 0

----------------------------------------------------------------------------
(* The App component: it keeps the game state between the calls, delays    *)
(* the roll by a timeout of 600 ms and the win modal by one of 800 ms.     *)
(* Timeouts of one delay fire in the order they were set.  A run starts on *)
(* the setup screen; while a script is left, the dice and the clicks       *)
(* follow it and the user stays in the game.                               *)

(* a bound of the App runs: the engine calls made after the script *)
MaxEngineCalls == 2

AppScenarios ==
  {[playerCount |-> 2, script |-> <<>>],
   [playerCount |-> 3, script |-> LastStepOpening]}

AppInit ==
  \E sc \in AppScenarios :
    /\ app = AppOn("setup")
    /\ lookup = NoLookup
    /\ coords = NoCoords
    /\ config = [playerCount |-> sc.playerCount, playerNames |-> <<>>, playerColors |-> <<>>]
    /\ created = "setup"
    /\ gameState = NoGame
    /\ script = sc.script
    /\ free = 0
    /\ sixStreak = 0

(* a pending timeout: its callback, the game state its closure holds and,  *)
(* for the properties, the game that state belongs to                      *)
Timer(callback, gs, game) == [callback |-> callback, gameState |-> gs, game |-> game]

Remove(timers, k) == SubSeq(timers, 1, k - 1) \o SubSeq(timers, k + 1, Len(timers))

IsFirstTimer(k, callback) ==
  /\ app.timers[k].callback = callback
  /\ \A j \in 1..(k - 1) : app.timers[j].callback # callback

(* the dice can be clicked *)
canRoll ==
  /\ gameState # NoGame
  /\ gameState.turnPhase = "roll"
  /\ ~gameState.gameOver
  /\ ~app.rolling

(* handleRollDice returns at once *)
RollRefused(gs, rolling) == gs = NoGame \/ gs.turnPhase # "roll" \/ rolling

(* a plausible slip: an accepted roll request does not set the rolling flag *)
RollingAfterAccept_Unset == FALSE

RollingAfterAccept == TRUE

(* one engine call more; after the script it uses up the bound *)
EngineCall ==
  /\ script' = IF script # <<>> THEN Tail(script) ELSE script
  /\ free' = IF script # <<>> THEN 0 ELSE free + 1
  /\ free' <= MaxEngineCalls

(* a click on the dice that is let through: the dice is enabled, and it is *)
(* not animating, which it only is while the rolling flag is set as well   *)
handleRollDice ==
  /\ app.screen = "playing"
  /\ canRoll
  /\ ~RollRefused(gameState, app.rolling)
  /\ script # <<>> => script[1].op = "roll"
  /\ app' = [app EXCEPT !.rolling = RollingAfterAccept,
                        !.timers = Append(@, Timer("roll", gameState, app.heldGame))]
  /\ UNCHANGED <<gameState, script, free, sixStreak, config, created, lookup, coords>>

(* the delayed callback of handleRollDice, on the state its closure holds *)
RollTimeout ==
  \E k \in 1..Len(app.timers), d \in rollDieValue :
    LET timer == app.timers[k]
        newState == rollLocalDice(timer.gameState, d)
    IN /\ IsFirstTimer(k, "roll")
       /\ script # <<>> => script[1] = Roll(d)
       /\ EngineCall
       /\ gameState' = newState
       /\ app' = [app EXCEPT
                    !.validMoves = IF newState.turnPhase = "move"
                                     THEN getValidMovesLocal(newState) ELSE <<>>,
                    !.timers = Remove(@, k) \o
                                 (IF newState.gameOver
                                    THEN <<Timer("win", NoGame, timer.game)>> ELSE <<>>),
                    !.rolling = FALSE,
                    !.heldGame = timer.game,
                    !.calls = @ + 1]
       /\ UNCHANGED <<sixStreak, config, created, lookup, coords>>

(* the delayed callback that shows the win modal *)
WinTimeout ==
  \E k \in 1..Len(app.timers) :
    /\ IsFirstTimer(k, "win")
    /\ app' = [app EXCEPT !.showWinModal = TRUE, !.timers = Remove(@, k)]
    /\ UNCHANGED <<gameState, script, free, sixStreak, config, created, lookup, coords>>

(* a click on a token that is let through *)
handleTokenClick ==
  /\ app.screen = "playing"
  /\ gameState # NoGame
  /\ gameState.turnPhase = "move"
  /\ \E m \in 1..Len(app.validMoves) :
       LET tokenId == app.validMoves[m].tokenId
           newState == moveLocalToken(gameState, tokenId)
       IN /\ script # <<>> => script[1] = [op |-> "move", arg |-> tokenId]
          /\ EngineCall
          /\ gameState' = newState
          /\ app' = [app EXCEPT
                       !.validMoves = <<>>,
                       !.timers = @ \o (IF newState.gameOver
                                          THEN <<Timer("win", NoGame, app.heldGame)>>
                                          ELSE <<>>),
                       !.calls = @ + 1]
  /\ UNCHANGED <<sixStreak, config, created, lookup, coords>>

handleNewGame ==
  /\ app.screen = "playing"
  /\ script = <<>>
  /\ gameState' = NoGame
  /\ app' = [app EXCEPT !.screen = "setup", !.validMoves = <<>>,
                        !.showWinModal = FALSE, !.heldGame = 0]
  /\ UNCHANGED <<script, free, sixStreak, config, created, lookup, coords>>

handleCloseWinModal ==
  /\ app.screen = "playing"
  /\ app.showWinModal
  /\ app' = [app EXCEPT !.showWinModal = FALSE]
  /\ UNCHANGED <<gameState, script, free, sixStreak, config, created, lookup, coords>>

AppNext ==
  \/ handleStartGame
  \/ handleRollDice
  \/ RollTimeout
  \/ WinTimeout
  \/ handleTokenClick
  \/ handleNewGame
  \/ handleCloseWinModal

AppSpec == AppInit /\ [][AppNext]_vars

IsRollTimer(timer) == timer.callback = "roll"

RollTimers == {k \in 1..Len(app.timers) : app.timers[k].callback = "roll"}

----------------------------------------------------------------------------
(* C34: from the moment a roll request is accepted until its delayed       *)
(* callback has installed the rolled state, no second engine call is made  *)
(* on the same snapshot: at most one roll callback is pending, while it is *)
(* the rolling flag is set (roll requests are ignored), the held state is  *)
(* in the roll phase (token clicks are ignored) and is the snapshot the    *)
(* callback holds unless another game was started, and the only engine     *)
(* call made is the callback's own.                                        *)

C34_WhilePending ==
  \A k \in RollTimers :
    /\ RollTimers = {k}
    /\ app.rolling
    /\ ~canRoll
    /\ gameState # NoGame => /\ gameState.turnPhase = "roll"
                             /\ app.validMoves = <<>>
                             /\ \/ gameState = app.timers[k].gameState
                                \/ app.heldGame # app.timers[k].game

C34_OneCallPerSnapshot ==
  /\ []C34_WhilePending
  /\ [][\A k \in RollTimers :
          /\ SelectSeq(app'.timers, IsRollTimer) # SelectSeq(app.timers, IsRollTimer) =>
               SelectSeq(app'.timers, IsRollTimer) = <<>>
          /\ app'.calls # app.calls =>
               /\ app'.calls = app.calls + 1
               /\ \E d \in rollDieValue :
                    gameState' = rollLocalDice(app.timers[k].gameState, d)]_vars

(* a roll request was accepted in the middle of a game and its callback is *)
(* pending                                                                 *)
C34_Witness ==
  /\ RollTimers # {}
  /\ app.calls > 0
  /\ app.screen = "playing"
  /\ gameState # NoGame
  /\ gameState = app.timers[1].gameState

----------------------------------------------------------------------------
(* C35: after New Game and the start of another game, the state the App    *)
(* holds is a state of the game started last: a roll callback set during   *)
(* an earlier game never overwrites it.                                    *)

C35_HeldStateIsOfCurrentGame ==
  (app.screen = "playing" /\ gameState # NoGame) => app.heldGame = app.game

----------------------------------------------------------------------------
(* What the caller's own object holds after a call has returned.  The      *)
(* operations write through the locals newState, token, newTokens,         *)
(* newPlayers and finishOrder; each is a copy made by a spread or by map,  *)
(* and a write through a local that were the caller's object itself would  *)
(* show in the caller's state.  newState shares its players and its        *)
(* finishOrder with the caller's state.                                    *)

(* a plausible slip: token is player.tokens[tokenIndex] itself *)
IsCopy_TokenShared ==
  [newState |-> TRUE, token |-> FALSE, newTokens |-> TRUE,
   newPlayers |-> TRUE, finishOrder |-> TRUE]

IsCopy ==
  [newState |-> TRUE, token |-> TRUE, newTokens |-> TRUE,
   newPlayers |-> TRUE, finishOrder |-> TRUE]

CallerAfterMove(gs, tokenId) ==
  LET returned == moveLocalToken(gs, tokenId)
  IN IF ~Applied(gs, returned) THEN gs
     ELSE
       LET playerIndex == gs.currentPlayerIndex
           tokenIndex == findIndex(gs.players[playerIndex].tokens, tokenId)
           throughToken ==
             IF IsCopy.token THEN gs
             ELSE [gs EXCEPT !.players[playerIndex].tokens[tokenIndex] =
                               returned.players[playerIndex].tokens[tokenIndex]]
           throughTokens ==
             IF IsCopy.newTokens THEN throughToken
             ELSE [throughToken EXCEPT
                     !.players = [i \in DOMAIN gs.players |->
                                    [@[i] EXCEPT !.tokens = returned.players[i].tokens]]]
           throughPlayers ==
             IF IsCopy.newPlayers THEN throughTokens
             ELSE [throughTokens EXCEPT !.players = returned.players]
       IN IF IsCopy.finishOrder THEN throughPlayers
          ELSE [throughPlayers EXCEPT !.finishOrder = returned.finishOrder]

CallerAfterRoll(gs, diceValue) ==
  IF GameIsOver(gs) \/ MustMoveFirst(gs) THEN gs
  ELSE IF diceValue = 6 /\ LosesTurn(gs.consecutiveSixes + 1)
    THEN IF IsCopy.newState THEN gs
         ELSE [gs EXCEPT !.diceValue = diceValue, !.diceRolled = TRUE,
                         !.consecutiveSixes = @ + 1]
  ELSE
    LET newState == RolledState(gs, diceValue)
        validMoves == getValidMovesLocal(newState)
        throughNewState ==
          IF IsCopy.newState THEN gs
          ELSE IF NoValidMoves(validMoves) \/ AutoMoves(validMoves) THEN newState
          ELSE [newState EXCEPT !.turnPhase = "move",
                                !.message = <<" rolled N. Choose a token to move.">>]
    IN IF ~NoValidMoves(validMoves) /\ AutoMoves(validMoves)
         THEN LET shared == CallerAfterMove(newState, validMoves[1].tokenId)
              IN [throughNewState EXCEPT !.players = shared.players,
                                         !.finishOrder = shared.finishOrder]
         ELSE throughNewState

----------------------------------------------------------------------------
(* C32: no operation changes a state it was given: after a roll or a move  *)
(* has returned, the state the caller holds (players, tokens, finishOrder, *)
(* moveHistory and every other field) is what it was before the call, and  *)
(* the same call on it returns the same result.                            *)

====
